---- MODULE Spec2Model ----
(***************************************************************************)
(* Reservation / return engine of the iPad registry.                       *)
(*                                                                         *)
(* The repository holds two versions of the server:                        *)
(*   - the batch variant (src/unnamed/part_000): POST /api/reserve takes   *)
(*     a list ipad_ids and runs inside db.transaction, POST /api/return    *)
(*     releases whole days, and a history table records both;              *)
(*   - the single-device variant (src/server.ts): POST /api/reserve takes  *)
(*     one ipad_id, checks Monday..Friday, has no return and no history.   *)
(* Each runs on its own database; `variant` says which one is running.     *)
(*                                                                         *)
(* Encoding of the request fields:                                         *)
(*   fecha          0 = absent/empty (falsy), d >= 1 = the d-th day after  *)
(*                  1970-01-01 written as YYYY-MM-DD (string order of such *)
(*                  dates is the numeric order of d)                       *)
(*   bloque_horario 0 = absent/empty, b >= 1 = the b-th entry of BLOQUES   *)
(*   ipad_id        0 is falsy in !ipad_id, ids 1..60 are the seeded pool  *)
(*                  (a null element of ipad_ids, which the batch route     *)
(*                  stores like any id outside the pool and on which       *)
(*                  UNIQUE never fires, is not among the ids of the model) *)
(*   docente, curso, novedades   strings, "" = absent/empty                *)
(*                                                                         *)
(*   month, year    numbers; "1" and "01" both reach the query as "01"     *)
(*                                                                         *)
(* The timestamp columns are left out: no route reads them back into a     *)
(* decision.  A request carries, besides its body, the place (if any) at   *)
(* which the storage fails while it is being handled: `fault` = k > 0      *)
(* makes the k-th statement of the handler's try block throw an error      *)
(* other than SQLITE_CONSTRAINT_UNIQUE (disk full, I/O error).             *)
(*                                                                         *)
(* A handler runs from its first line to its response without yielding     *)
(* (better-sqlite3 is synchronous), so requests that are in flight at the  *)
(* same time are handled one whole handler after another, in any order.    *)
(* The one handler that yields is the export: it is async, runs its        *)
(* queries and fills the workbook, and returns to the event loop at        *)
(* await workbook.xlsx.write(res); res.end() follows in a later turn.      *)
(* `writing` holds the workbooks whose write is pending, each with the     *)
(* number of handlers run since (`during`).                                *)
(***************************************************************************)
EXTENDS Integers, Sequences, FiniteSets

VARIABLES variant, reservations, nextId, history, today, settings, clients,
          writing

vars == <<variant, reservations, nextId, history, today, settings, clients,
          writing>>

\* ---------------------------------------------------------------- bounds
MaxDev == 1      \* request device ids range over 0..MaxDev
MaxDay == 2      \* dates range over 1..MaxDay
MaxBlock == 2    \* blocks range over 1..MaxBlock
MaxRows == 3     \* reservation rows ever inserted (AUTOINCREMENT cap)
MaxBatch == MaxDev + 1   \* longest ipad_ids list of a request
MaxHist == MaxRows       \* history rows ever inserted
MaxClients == 2  \* requests that can be in flight at the same time
MaxWriting == 1  \* exports whose workbook is being written at the same time
MaxDuring == 1   \* handlers that run while one workbook is being written
ExportRows == 1  \* an export is begun while at most so many reservation rows
                 \* were ever inserted (exports of fuller stores: ExportOutcome)
TrafficDay == 1    \* dates of the requests of every kind in flight: 0..TrafficDay
TrafficBlock == 1  \* their blocks: 0..TrafficBlock
TrafficBatch == 1  \* their longest ipad_ids list
WeekDays == 7      \* dates of the requests of a whole week: 0..WeekDays

\* ------------------------------------------------------- program constants
PoolSize == 60

\* the ipads table, seeded at start-up and written by no route
Ipads == 1..PoolSize

StatusOk == 200
StatusBadRequest == 400
StatusNotFound == 404
StatusConflict == 409
StatusServerError == 500

\* error.code of a thrown SqliteError
UniqueCode == "SQLITE_CONSTRAINT_UNIQUE"
OtherCode == "SQLITE_IOERR"

\* the background_url seeded at start-up
DefaultBackground == "https://picsum.photos/id/1015/1920/1080?blur=2"

\* ------------------------------------------------------------ input sets
DevIds == 0..MaxDev
Fechas == 0..MaxDay
Bloques == 0..MaxBlock
\* Who asks: docente, curso and novedades of a request body, each absent ("")
\* or present.
Persona(d, c, n) == [docente |-> d, curso |-> c, novedades |-> n]
Personas == {Persona("", "", ""), Persona("luz", "5A", "roto")}

SeqsUpTo(S, n) == UNION {[1..k -> S] : k \in 0..n}

\* req.body.ipad_ids: either not an array at all, or an array of ids
NoArray == [isArray |-> FALSE, items |-> <<>>]
Arr(s) == [isArray |-> TRUE, items |-> s]
IdLists == {NoArray} \cup {Arr(s) : s \in SeqsUpTo(DevIds, MaxBatch)}

\* ------------------------------------------------------------- helpers
\* new Date(fecha).getUTCDay(): 0 = Sunday .. 6 = Saturday; 1970-01-01 was a
\* Thursday, so day 1 (1970-01-02) is a Friday.
UTCDay(fecha) == (fecha + 4) % 7

\* UNIQUE(ipad_id, fecha, bloque_horario)
SameSlot(r, ipad, fecha, bloque) ==
  r.ipad_id = ipad /\ r.fecha = fecha /\ r.bloque_horario = bloque

\* (variant of UniqueViolation: the table declared without its UNIQUE clause)
UniqueViolationNever(rows, ipad, fecha, bloque) == FALSE

UniqueViolation(rows, ipad, fecha, bloque) ==
  \E r \in rows : SameSlot(r, ipad, fecha, bloque)

NewRow(id, ipad, fecha, bloque, docente, curso) ==
  [id |-> id, ipad_id |-> ipad, fecha |-> fecha, bloque_horario |-> bloque,
   docente |-> docente, curso |-> curso]

\* curso || ""   and   x || "N/A"
OrDefault(x, d) == IF x = "" THEN d ELSE x

\* --------------------------------------------------------------- requests
\* One request body.  Fields a route does not read are left at their empty
\* value.  op: "reserve" (POST /api/reserve), "return" (POST /api/return).
Request(op, ipad_id, ipad_ids, fecha, bloque, docente, curso, novedades) ==
  [op |-> op, ipad_id |-> ipad_id, ipad_ids |-> ipad_ids, fecha |-> fecha,
   bloque_horario |-> bloque, docente |-> docente, curso |-> curso,
   novedades |-> novedades, fault |-> 0]

\* the same request, handled while the storage fails at statement k
Faulted(req, k) == [req EXCEPT !.fault = k]

\* The database as one value: what a transaction commits or rolls back.
Db ==
  [reservations |-> reservations, nextId |-> nextId, history |-> history,
   settings |-> settings]

\* what a statement that threw, or ran, hands back
Throw(code, db) == [threw |-> TRUE, code |-> code, db |-> db]
Ran(db) == [threw |-> FALSE, code |-> "", db |-> db]

\* (variant of Transaction: the writes made before the throw are kept)
TransactionNoRollback(before, r) == r.db

\* db.transaction(fn): commit what fn did, or roll everything back if it threw
Transaction(before, r) == IF r.threw THEN before ELSE r.db

\* ------------------------------------------------ batch variant: reserve
\* (variant of ReserveInvalid: the !docente test left out)
ReserveInvalidNoDocente(req) ==
  \/ ~req.ipad_ids.isArray
  \/ Len(req.ipad_ids.items) = 0
  \/ req.fecha = 0
  \/ req.bloque_horario = 0

\* !ipad_ids || !Array.isArray(ipad_ids) || ipad_ids.length === 0 ||
\* !fecha || !bloque_horario || !docente
ReserveInvalid(req) ==
  \/ ~req.ipad_ids.isArray
  \/ Len(req.ipad_ids.items) = 0
  \/ req.fecha = 0
  \/ req.bloque_horario = 0
  \/ req.docente = ""

\* (variant of InsertRes: the row is added whether or not the slot is taken)
InsertResUnchecked(db, ipad, req) ==
  Ran([db EXCEPT
        !.reservations = @ \cup
          {NewRow(db.nextId, ipad, req.fecha, req.bloque_horario,
                  req.docente, OrDefault(req.curso, ""))},
        !.nextId = @ + 1])

\* (variant of InsertRes: INSERT OR REPLACE, the row of a taken slot gives
\* way to the new one)
InsertResReplace(db, ipad, req) ==
  Ran([db EXCEPT
        !.reservations =
          {r \in @ : ~SameSlot(r, ipad, req.fecha, req.bloque_horario)} \cup
          {NewRow(db.nextId, ipad, req.fecha, req.bloque_horario,
                  req.docente, OrDefault(req.curso, ""))},
        !.nextId = @ + 1])

\* insertRes.run(id, fecha, bloque_horario, docente, curso || ""): throws
\* SQLITE_CONSTRAINT_UNIQUE when the slot already has a row.
InsertRes(db, ipad, req) ==
  IF UniqueViolation(db.reservations, ipad, req.fecha, req.bloque_horario)
  THEN Throw(UniqueCode, db)
  ELSE Ran([db EXCEPT
             !.reservations = @ \cup
               {NewRow(db.nextId, ipad, req.fecha, req.bloque_horario,
                       req.docente, OrDefault(req.curso, ""))},
             !.nextId = @ + 1])

\* for (const id of ids) insertRes.run(...): the insert for the k-th id is
\* statement k of the transaction
RECURSIVE InsertAll(_, _, _)
InsertAll(db, ids, req) ==
  IF ids = <<>> THEN Ran(db)
  ELSE IF req.fault = Len(req.ipad_ids.items) - Len(ids) + 1
  THEN Throw(OtherCode, db)
  ELSE LET r == InsertRes(db, Head(ids), req)
       IN IF r.threw THEN r ELSE InsertAll(r.db, Tail(ids), req)

\* (variant of ReserveEvent: ids[0] written where ids.join(", ") belongs)
ReserveEventFirstOnly(ids, req) ==
  [docente |-> req.docente, curso |-> OrDefault(req.curso, ""),
   ipads |-> SubSeq(ids, 1, 1),
   fecha |-> req.fecha, bloque_horario |-> <<req.bloque_horario>>,
   tipo |-> "RESERVA", novedades |-> ""]

\* One row of the history table.  ipads is ids.join(", ") and bloque_horario
\* the block name or the ", "-joined block names; both are kept as the
\* sequences they were joined from.
ReserveEvent(ids, req) ==
  [docente |-> req.docente, curso |-> OrDefault(req.curso, ""), ipads |-> ids,
   fecha |-> req.fecha, bloque_horario |-> <<req.bloque_horario>>,
   tipo |-> "RESERVA", novedades |-> ""]

\* (variant of ReserveBody: the history insert left out)
ReserveBodyNoHistory(db, ids, req) == InsertAll(db, ids, req)

\* the function given to db.transaction in POST /api/reserve; the history
\* insert is the statement after the last reservation insert
ReserveBody(db, ids, req) ==
  LET r == InsertAll(db, ids, req)
  IN IF r.threw THEN r
     ELSE IF req.fault = Len(ids) + 1 THEN Throw(OtherCode, r.db)
     ELSE Ran([r.db EXCEPT !.history = Append(@, ReserveEvent(ids, req))])

\* (variant of ErrorStatus: every thrown error answered as a conflict)
ErrorStatusAlwaysConflict(code) == StatusConflict

\* if (error.code === "SQLITE_CONSTRAINT_UNIQUE") 409 else 500
ErrorStatus(code) ==
  IF code = UniqueCode THEN StatusConflict ELSE StatusServerError

\* (variant of ReserveOutcome: the history row is inserted before the
\* transaction, as a record of the attempt)
ReserveOutcomeLogsAttempt(db, req) ==
  IF ReserveInvalid(req) THEN [db |-> db, status |-> StatusBadRequest]
  ELSE LET logged == [db EXCEPT
                        !.history = Append(@, ReserveEvent(req.ipad_ids.items, req))]
           r == InsertAll(logged, req.ipad_ids.items, req)
       IN [db |-> Transaction(logged, r),
           status |-> IF r.threw THEN ErrorStatus(r.code) ELSE StatusOk]

\* POST /api/reserve of the batch variant, as a function of the database
ReserveOutcome(db, req) ==
  IF ReserveInvalid(req) THEN [db |-> db, status |-> StatusBadRequest]
  ELSE LET r == ReserveBody(db, req.ipad_ids.items, req)
       IN [db |-> Transaction(db, r),
           status |-> IF r.threw THEN ErrorStatus(r.code) ELSE StatusOk]

\* A handler runs while the workbooks of earlier exports are still being
\* written: each of these writes has one more handler run during it.
Room == \A i \in 1..Len(writing) : writing[i].during < MaxDuring
OneMore == [i \in 1..Len(writing) |-> [writing[i] EXCEPT !.during = @ + 1]]
During == Room /\ writing' = OneMore

\* the database takes the value a handler left
Write(db) ==
  /\ reservations' = db.reservations
  /\ nextId' = db.nextId
  /\ history' = db.history
  /\ settings' = db.settings

\* The handler's writes reach the database; the status goes to the caller.
Commit(out) ==
  /\ out.db.nextId <= MaxRows + 1
  /\ Len(out.db.history) <= MaxHist
  /\ Write(out.db)
  /\ During
  /\ UNCHANGED <<variant, today, clients>>

ReserveRequests ==
  {Request("reserve", 0, ids, f, b, p.docente, p.curso, "") :
     ids \in IdLists, f \in Fechas, b \in Bloques, p \in Personas}

\* the requests that reach the transaction, each with a storage failure at
\* one of its statements
ReserveFaulted ==
  UNION {{Faulted(req, k) : k \in 1..(Len(req.ipad_ids.items) + 1)} :
           req \in {r \in ReserveRequests : ~ReserveInvalid(r)}}

Reserve ==
  /\ variant = "batch"
  /\ \E req \in ReserveRequests \cup ReserveFaulted :
       Commit(ReserveOutcome(Db, req))

\* ------------------------------------------------- batch variant: return
\* !ipad_ids || !Array.isArray(ipad_ids) || ipad_ids.length === 0 || !fecha
ReturnInvalid(req) ==
  \/ ~req.ipad_ids.isArray
  \/ Len(req.ipad_ids.items) = 0
  \/ req.fecha = 0

\* (variant of PastDate: the past-date check left out)
PastDateNever(fecha, todayStr) == FALSE

\* (variant of PastDate: the comparison turned around)
PastDateReversed(fecha, todayStr) == fecha > todayStr

\* fecha < todayStr
PastDate(fecha, todayStr) == fecha < todayStr

\* the place of the block names of BLOQUES in string order ("Receso ..." is
\* the fourth entry and sorts after the eight "n° Bloque ..." names)
BlockRank(b) == IF b = 4 THEN 9 ELSE IF b > 4 THEN b - 1 ELSE b

\* the blocks of S in the string order of their names
RECURSIVE SortedSeq(_)
SortedSeq(S) ==
  IF S = {} THEN <<>>
  ELSE LET m == CHOOSE x \in S : \A y \in S : BlockRank(x) <= BlockRank(y)
       IN <<m>> \o SortedSeq(S \ {m})

\* getBlocks.all(id, fecha): the rows come out of the UNIQUE index
\* (ipad_id, fecha, bloque_horario), that is in the string order of the
\* block names: blocks 3, 4 (Receso) and 5 come out as 3, 5, 4.
GetBlocks(rows, ipad, fecha) ==
  SortedSeq({r.bloque_horario : r \in {x \in rows : x.ipad_id = ipad /\ x.fecha = fecha}})

InSeq(x, s) == \E i \in 1..Len(s) : s[i] = x

\* (variant of AddAll: an array that is pushed to, instead of a Set)
AddAllNoDedupe(released, blocks) == released \o blocks

\* rows.forEach(r => releasedBlocks.add(r.bloque_horario)): a Set keeps
\* insertion order and ignores a value it already holds.
RECURSIVE AddAll(_, _)
AddAll(released, blocks) ==
  IF blocks = <<>> THEN released
  ELSE AddAll(IF InSeq(Head(blocks), released) THEN released
              ELSE Append(released, Head(blocks)),
              Tail(blocks))

\* (variant of Remove: DELETE ... AND bloque_horario = <the first block found>)
RemoveFirstBlock(rows, ipad, fecha) ==
  {r \in rows : ~(r.ipad_id = ipad /\ r.fecha = fecha /\
                  \A x \in rows : (x.ipad_id = ipad /\ x.fecha = fecha)
                                     => r.bloque_horario <= x.bloque_horario)}

\* (variant of Remove: DELETE FROM reservations WHERE ipad_id = ?)
RemoveAnyDate(rows, ipad, fecha) == {r \in rows : r.ipad_id # ipad}

\* remove.run(id, fecha)
Remove(rows, ipad, fecha) == {r \in rows : ~(r.ipad_id = ipad /\ r.fecha = fecha)}

\* for (const id of ids) { rows = getBlocks...; if (rows.length > 0) {...} }
\* The statements run for the k-th id are statement k of the transaction.
RECURSIVE ReleaseAll(_, _, _, _)
ReleaseAll(db, ids, req, released) ==
  IF ids = <<>> THEN [threw |-> FALSE, db |-> db, released |-> released]
  ELSE IF req.fault = Len(req.ipad_ids.items) - Len(ids) + 1
  THEN [threw |-> TRUE, db |-> db, released |-> released]
  ELSE LET rows == GetBlocks(db.reservations, Head(ids), req.fecha)
       IN IF Len(rows) > 0
          THEN ReleaseAll([db EXCEPT !.reservations = Remove(@, Head(ids), req.fecha)],
                          Tail(ids), req, AddAll(released, rows))
          ELSE ReleaseAll(db, Tail(ids), req, released)

ReturnEvent(ids, req, released) ==
  [docente |-> OrDefault(req.docente, "N/A"), curso |-> OrDefault(req.curso, "N/A"),
   ipads |-> ids, fecha |-> req.fecha, bloque_horario |-> released,
   tipo |-> "DEVOLUCION", novedades |-> OrDefault(req.novedades, "")]

\* (variant of ReturnBody: the releasedBlocks.size > 0 test left out)
ReturnBodyAlways(db, ids, req) ==
  LET r == ReleaseAll(db, ids, req, <<>>)
  IN IF r.threw THEN [threw |-> TRUE, result |-> FALSE, db |-> r.db]
     ELSE [threw |-> FALSE, result |-> TRUE,
           db |-> [r.db EXCEPT !.history = Append(@, ReturnEvent(ids, req, r.released))]]

\* (variant of ReturnBody: the newest history row is updated, not a new one
\* inserted)
ReturnBodyUpdatesHistory(db, ids, req) ==
  LET r == ReleaseAll(db, ids, req, <<>>)
  IN IF r.threw THEN [threw |-> TRUE, result |-> FALSE, db |-> r.db]
     ELSE IF Len(r.released) > 0
     THEN [threw |-> FALSE, result |-> TRUE,
           db |-> [r.db EXCEPT
                    !.history = [@ EXCEPT ![Len(@)] = ReturnEvent(ids, req, r.released)]]]
     ELSE [threw |-> FALSE, result |-> FALSE, db |-> r.db]

\* the function given to db.transaction in POST /api/return; the history
\* insert is the statement after those of the last id
ReturnBody(db, ids, req) ==
  LET r == ReleaseAll(db, ids, req, <<>>)
  IN IF r.threw THEN [threw |-> TRUE, result |-> FALSE, db |-> r.db]
     ELSE IF Len(r.released) > 0
     THEN IF req.fault = Len(ids) + 1
          THEN [threw |-> TRUE, result |-> FALSE, db |-> r.db]
          ELSE [threw |-> FALSE, result |-> TRUE,
                db |-> [r.db EXCEPT
                         !.history = Append(@, ReturnEvent(ids, req, r.released))]]
     ELSE [threw |-> FALSE, result |-> FALSE, db |-> r.db]

\* (variant of ReturnOutcome: the loop and the history insert run without
\* db.transaction around them)
ReturnOutcomeUnwrapped(db, req, todayStr) ==
  IF ReturnInvalid(req) THEN [db |-> db, status |-> StatusBadRequest]
  ELSE IF PastDate(req.fecha, todayStr) THEN [db |-> db, status |-> StatusBadRequest]
  ELSE LET r == ReturnBody(db, req.ipad_ids.items, req)
       IN [db |-> r.db,
           status |-> IF r.threw THEN StatusServerError
                      ELSE IF r.result THEN StatusOk ELSE StatusNotFound]

\* (variant of ReturnOutcome: the else branch that answers 404 left out, so
\* a Return that released nothing sends no response)
ReturnOutcomeNoElse(db, req, todayStr) ==
  IF ReturnInvalid(req) THEN [db |-> db, status |-> StatusBadRequest]
  ELSE IF PastDate(req.fecha, todayStr) THEN [db |-> db, status |-> StatusBadRequest]
  ELSE LET r == ReturnBody(db, req.ipad_ids.items, req)
       IN [db |-> Transaction(db, r),
           status |-> IF r.threw THEN StatusServerError
                      ELSE IF r.result THEN StatusOk ELSE 0]

\* POST /api/return, as a function of the database and the current date
ReturnOutcome(db, req, todayStr) ==
  IF ReturnInvalid(req) THEN [db |-> db, status |-> StatusBadRequest]
  ELSE IF PastDate(req.fecha, todayStr) THEN [db |-> db, status |-> StatusBadRequest]
  ELSE LET r == ReturnBody(db, req.ipad_ids.items, req)
       IN [db |-> Transaction(db, r),
           status |-> IF r.threw THEN StatusServerError
                      ELSE IF r.result THEN StatusOk ELSE StatusNotFound]

ReturnRequests ==
  {Request("return", 0, ids, f, 0, p.docente, p.curso, p.novedades) :
     ids \in IdLists, f \in Fechas, p \in Personas}

ReturnFaulted ==
  UNION {{Faulted(req, k) : k \in 1..(Len(req.ipad_ids.items) + 1)} :
           req \in {r \in ReturnRequests : ~ReturnInvalid(r)}}

Return ==
  /\ variant = "batch"
  /\ \E req \in ReturnRequests \cup ReturnFaulted :
       Commit(ReturnOutcome(Db, req, today))

\* ------------------------------------------- single-device variant: reserve
\* !ipad_id || !fecha || !bloque_horario || !docente
Reserve1Invalid(req) ==
  \/ req.ipad_id = 0
  \/ req.fecha = 0
  \/ req.bloque_horario = 0
  \/ req.docente = ""

\* (variant of Weekend: only Saturday tested)
WeekendSaturdayOnly(fecha) == UTCDay(fecha) = 6

\* day === 0 || day === 6
Weekend(fecha) == UTCDay(fecha) = 0 \/ UTCDay(fecha) = 6

\* (variant of Reserve1Outcome: INSERT OR REPLACE in place of INSERT)
Reserve1OutcomeReplace(db, req) ==
  IF Reserve1Invalid(req) THEN [db |-> db, status |-> StatusBadRequest]
  ELSE IF Weekend(req.fecha) THEN [db |-> db, status |-> StatusBadRequest]
  ELSE LET r == IF req.fault = 1 THEN Throw(OtherCode, db)
                ELSE InsertResReplace(db, req.ipad_id, req)
       IN [db |-> r.db,
           status |-> IF r.threw THEN ErrorStatus(r.code) ELSE StatusOk]

\* POST /api/reserve of the single-device variant
Reserve1Outcome(db, req) ==
  IF Reserve1Invalid(req) THEN [db |-> db, status |-> StatusBadRequest]
  ELSE IF Weekend(req.fecha) THEN [db |-> db, status |-> StatusBadRequest]
  ELSE LET r == IF req.fault = 1 THEN Throw(OtherCode, db)
                ELSE InsertRes(db, req.ipad_id, req)
       IN [db |-> r.db,
           status |-> IF r.threw THEN ErrorStatus(r.code) ELSE StatusOk]

Reserve1Requests ==
  {Request("reserve1", i, NoArray, f, b, p.docente, p.curso, "") :
     i \in DevIds, f \in Fechas, b \in Bloques, p \in Personas}

Reserve1Faulted ==
  {Faulted(req, 1) : req \in {r \in Reserve1Requests : ~Reserve1Invalid(r)}}

Reserve1 ==
  /\ variant = "single"
  /\ \E req \in Reserve1Requests \cup Reserve1Faulted :
       Commit(Reserve1Outcome(Db, req))

\* ----------------------------------------- reserving over a whole week
\* Reserve requests for one device, with dates over a whole week (Friday
\* 1970-01-02 to Thursday 1970-01-08), so that every getUTCDay occurs.
ReserveWeekRequests ==
  {Request("reserve", 0, Arr(<<i>>), f, b, p.docente, p.curso, "") :
     i \in DevIds, f \in 0..WeekDays, b \in Bloques, p \in Personas}

Reserve1WeekRequests ==
  {Request("reserve1", i, NoArray, f, b, p.docente, p.curso, "") :
     i \in DevIds, f \in 0..WeekDays, b \in Bloques, p \in Personas}

ReserveWeek ==
  /\ variant = "batch"
  /\ \E req \in ReserveWeekRequests : Commit(ReserveOutcome(Db, req))

Reserve1Week ==
  /\ variant = "single"
  /\ \E req \in Reserve1WeekRequests : Commit(Reserve1Outcome(Db, req))

\* ----------------------------------------------------------- settings
Urls == {DefaultBackground, "fondo.png"}

\* GET /api/settings/background
GetBackgroundOutcome(db) ==
  [db |-> db, status |-> StatusOk, url |-> db.settings.background_url]

GetBackground == Commit(GetBackgroundOutcome(Db))

\* (variant of UpdateBackgroundOutcome: the tables are emptied as well)
UpdateBackgroundWipes(db, url) ==
  [db |-> [db EXCEPT !.settings.background_url = url,
                     !.reservations = {}, !.history = <<>>],
   status |-> StatusOk]

\* POST /api/settings/background: INSERT OR REPLACE of the one key
UpdateBackgroundOutcome(db, url) ==
  [db |-> [db EXCEPT !.settings.background_url = url], status |-> StatusOk]

UpdateBackground == \E url \in Urls : Commit(UpdateBackgroundOutcome(Db, url))

\* ------------------------------------------------------- availability
Query(fecha, bloque) == [fecha |-> fecha, bloque |-> bloque]
AvailabilityQueries == {Query(f, b) : f \in Fechas, b \in Bloques}

\* (variant of AvailabilityOutcome: the block filter left out)
AvailabilityAnyBlock(db, q) ==
  IF q.fecha = 0
  THEN [db |-> db, status |-> StatusBadRequest, reserved |-> {}]
  ELSE [db |-> db, status |-> StatusOk,
        reserved |-> {[ipad_id |-> r.ipad_id, bloque_horario |-> r.bloque_horario] :
                        r \in {x \in db.reservations : x.fecha = q.fecha}}]

\* GET /api/availability of the batch variant: the rows (ipad_id,
\* bloque_horario) of the date, of one block if a block is given.  The rows
\* of the answer are kept as a set: the query has no ORDER BY.
AvailabilityOutcome(db, q) ==
  IF q.fecha = 0
  THEN [db |-> db, status |-> StatusBadRequest, reserved |-> {}]
  ELSE [db |-> db, status |-> StatusOk,
        reserved |-> {[ipad_id |-> r.ipad_id, bloque_horario |-> r.bloque_horario] :
                        r \in {x \in db.reservations :
                                 /\ x.fecha = q.fecha
                                 /\ q.bloque # 0 => x.bloque_horario = q.bloque}}]

Availability ==
  /\ variant = "batch"
  /\ \E q \in AvailabilityQueries : Commit(AvailabilityOutcome(Db, q))

\* GET /api/availability of the single-device variant: date and block are
\* both required and the answer lists the device ids
Availability1Outcome(db, q) ==
  IF q.fecha = 0 \/ q.bloque = 0
  THEN [db |-> db, status |-> StatusBadRequest, reserved |-> {}]
  ELSE [db |-> db, status |-> StatusOk,
        reserved |-> {r.ipad_id :
                        r \in {x \in db.reservations :
                                 x.fecha = q.fecha /\ x.bloque_horario = q.bloque}}]

Availability1 ==
  /\ variant = "single"
  /\ \E q \in AvailabilityQueries : Commit(Availability1Outcome(Db, q))

\* --------------------------------------------------------- statistics
\* strftime('%m', fecha) and strftime('%Y', fecha) of the d-th day after
\* 1970-01-01, for the dates of 1970 and 1971 (years of 365 days)
DaysBefore == <<0, 31, 59, 90, 120, 151, 181, 212, 243, 273, 304, 334, 365>>
MonthOf(fecha) ==
  CHOOSE m \in 1..12 :
    DaysBefore[m] <= fecha % 365 /\ fecha % 365 < DaysBefore[m + 1]
YearOf(fecha) == 1970 + (fecha \div 365)

MonthQuery(month, year) == [month |-> month, year |-> year]
MonthQueries == {MonthQuery(m, y) : m \in {1, 2}, y \in {1970, 1971}}

\* WHERE strftime('%m', fecha) = ? AND strftime('%Y', fecha) = ?
InMonth(fecha, q) == MonthOf(fecha) = q.month /\ YearOf(fecha) = q.year

\* A value of the answer: the no-data text "N/A", or a number
NA == [na |-> TRUE, value |-> 0]
Val(x) == [na |-> FALSE, value |-> x]

\* (variant of OrNA: the column is read without the || "N/A")
OrNANoDefault(row) == Val(row.key)

\* row?.column || "N/A": no row, or a falsy column (0, "")
OrNA(row) == IF ~row.found \/ row.key = 0 THEN NA ELSE Val(row.key)

\* the place of a key in the order of its column: numbers and dates in
\* their own order, block names in string order
Rank(col, k) == IF col = "bloque_horario" THEN BlockRank(k) ELSE k

\* SELECT col, COUNT(*) as count ... GROUP BY col ORDER BY count DESC
\* LIMIT 1.  Among the groups with the highest count SQLite returns, for
\* ipad_id (grouped along the UNIQUE index), the lowest id, and for fecha
\* and bloque_horario (grouped by a sort) the last key in the order of the
\* column; the order of insertion plays no part.
TopGroup(rows, col) ==
  LET keys == {r[col] : r \in rows}
      Count(k) == Cardinality({r \in rows : r[col] = k})
  IN IF keys = {} THEN [found |-> FALSE, key |-> 0]
     ELSE [found |-> TRUE,
           key |-> CHOOSE k \in keys :
                     \A j \in keys :
                       \/ Count(k) > Count(j)
                       \/ /\ Count(k) = Count(j)
                          /\ IF col = "ipad_id"
                             THEN Rank(col, k) <= Rank(col, j)
                             ELSE Rank(col, k) >= Rank(col, j)]

\* (variant of StatsOutcome: the count query ran before the newest
\* reservation was committed, the other queries after)
StatsOutcomeTorn(db, q) ==
  LET rows == {r \in db.reservations : InMonth(r.fecha, q)}
  IN [db |-> db, status |-> StatusOk,
      body |-> [total |-> Cardinality({r \in rows : r.id < db.nextId - 1}),
                ipadMasUsado |-> OrNA(TopGroup(rows, "ipad_id")),
                diaMasDemanda |-> OrNA(TopGroup(rows, "fecha")),
                bloqueMasReservado |-> OrNA(TopGroup(rows, "bloque_horario"))]]

\* the devices listed by the RESERVA events of a month
RECURSIVE ReservedInHistory(_, _)
ReservedInHistory(events, q) ==
  IF events = <<>> THEN 0
  ELSE (IF Head(events).tipo = "RESERVA" /\ InMonth(Head(events).fecha, q)
        THEN Len(Head(events).ipads) ELSE 0)
       + ReservedInHistory(Tail(events), q)

\* (variant of StatsOutcome: the total counted over the history table)
StatsOverHistory(db, q) ==
  LET rows == {r \in db.reservations : InMonth(r.fecha, q)}
  IN [db |-> db, status |-> StatusOk,
      body |-> [total |-> ReservedInHistory(db.history, q),
                ipadMasUsado |-> OrNA(TopGroup(rows, "ipad_id")),
                diaMasDemanda |-> OrNA(TopGroup(rows, "fecha")),
                bloqueMasReservado |-> OrNA(TopGroup(rows, "bloque_horario"))]]

\* GET /api/stats (the same code in both variants)
StatsOutcome(db, q) ==
  LET rows == {r \in db.reservations : InMonth(r.fecha, q)}
  IN [db |-> db, status |-> StatusOk,
      body |-> [total |-> Cardinality(rows),
                ipadMasUsado |-> OrNA(TopGroup(rows, "ipad_id")),
                diaMasDemanda |-> OrNA(TopGroup(rows, "fecha")),
                bloqueMasReservado |-> OrNA(TopGroup(rows, "bloque_horario"))]]

Stats == \E q \in MonthQueries : Commit(StatsOutcome(Db, q))

\* ------------------------------------------------- listing and export
ListingQuery(month, year, docente, ipad_id) ==
  [month |-> month, year |-> year, docente |-> docente, ipad_id |-> ipad_id]
ListingQueries ==
  {ListingQuery(m, y, d, i) :
     m \in {0, 1, 2}, y \in {0, 1970}, d \in {"", "luz"}, i \in DevIds}

\* docente LIKE %text%: of the names in use none is part of another
Like(docente, text) == docente = text

\* the WHERE clause that GET /api/reservations builds
Listed(row, q) ==
  /\ (q.month # 0 /\ q.year # 0) => InMonth(row.fecha, q)
  /\ q.docente # "" => Like(row.docente, q.docente)

\* GET /api/reservations of the batch variant: the history rows (named by
\* their id, the place in the table) that pass the filters
ListingOutcome(db, q) ==
  [db |-> db, status |-> StatusOk,
   rows |-> {i \in 1..Len(db.history) : Listed(db.history[i], q)}]

Listing ==
  /\ variant = "batch"
  /\ \E q \in ListingQueries : Commit(ListingOutcome(Db, q))

\* GET /api/reservations of the single-device variant: reservation rows,
\* with one more filter
Listing1Outcome(db, q) ==
  [db |-> db, status |-> StatusOk,
   rows |-> {r \in db.reservations :
               Listed(r, q) /\ (q.ipad_id # 0 => r.ipad_id = q.ipad_id)}]

Listing1 ==
  /\ variant = "single"
  /\ \E q \in ListingQueries : Commit(Listing1Outcome(Db, q))

\* (variant of ExportOutcome: the exported history rows are deleted)
ExportAndPurge(db, q) ==
  [db |-> [db EXCEPT !.history = <<>>], status |-> StatusOk,
   rows |-> {i \in 1..Len(db.history) : InMonth(db.history[i].fecha, q)},
   total |-> 0, top_ipad |-> NA, top_block |-> NA]

\* GET /api/export/month/:month/:year of the batch variant: the history
\* rows of the month and three figures of the reservations of the month
ExportOutcome(db, q) ==
  LET rows == {r \in db.reservations : InMonth(r.fecha, q)}
  IN [db |-> db, status |-> StatusOk,
      rows |-> {i \in 1..Len(db.history) : InMonth(db.history[i].fecha, q)},
      total |-> Cardinality(rows),
      top_ipad |-> OrNA(TopGroup(rows, "ipad_id")),
      top_block |-> OrNA(TopGroup(rows, "bloque_horario"))]

\* The workbook of an export whose handler has run to its await: the
\* queries are done and the sheets filled, the response is not yet ended.
Workbook(q, out) ==
  [q |-> q, rows |-> out.rows, total |-> out.total,
   top_ipad |-> out.top_ipad, top_block |-> out.top_block, during |-> 0]

\* The export handler runs to await workbook.xlsx.write(res) and returns to
\* the event loop; other handlers run before the write is over.
Await(q, out) ==
  /\ Len(writing) < MaxWriting
  /\ nextId <= ExportRows + 1
  /\ Room
  /\ Write(out.db)
  /\ writing' = Append(OneMore, Workbook(q, out))
  /\ UNCHANGED <<variant, today, clients>>

Export ==
  /\ variant = "batch"
  /\ \E q \in MonthQueries : Await(q, ExportOutcome(Db, q))

\* a write is over and the handler goes on to res.end(): the workbook sent
\* is the one filled before the await
ExportEnd ==
  /\ \E i \in 1..Len(writing) :
       writing' = SubSeq(writing, 1, i - 1) \o SubSeq(writing, i + 1, Len(writing))
  /\ UNCHANGED <<variant, reservations, nextId, history, today, settings, clients>>

\* the same route of the single-device variant: reservation rows
Export1Outcome(db, q) ==
  LET rows == {r \in db.reservations : InMonth(r.fecha, q)}
  IN [db |-> db, status |-> StatusOk,
      rows |-> rows,
      total |-> Cardinality(rows),
      top_ipad |-> OrNA(TopGroup(rows, "ipad_id")),
      top_block |-> OrNA(TopGroup(rows, "bloque_horario"))]

Export1 ==
  /\ variant = "single"
  /\ \E q \in MonthQueries : Await(q, Export1Outcome(Db, q))

\* ------------------------------------------------- requests in flight
\* A client sends one Reserve and waits for its answer.  `clients` holds
\* the clients that have sent theirs; `arrived` and `served` number the
\* events in the order they happened (served = 0: still waiting).
Clients == 1..MaxClients
Sent == DOMAIN clients
Waiting == {c \in Sent : clients[c].served = 0}
Answered == Sent \ Waiting

Events == Cardinality(Sent) + Cardinality(Answered)

\* the Reserve requests of the running variant that pass validation
Arrivals ==
  IF variant = "batch"
  THEN {r \in ReserveRequests : ~ReserveInvalid(r)}
  ELSE {r \in Reserve1Requests : ~Reserve1Invalid(r)}

\* the route a request is for
Handle(db, req) ==
  IF req.op = "reserve" THEN ReserveOutcome(db, req)
  ELSE Reserve1Outcome(db, req)

\* a request reaches the server and waits in the event loop
Arrive(c) ==
  /\ c = Cardinality(Sent) + 1
  /\ \E req \in Arrivals :
       clients' = Append(clients, [req |-> req, arrived |-> Events + 1,
                                   served |-> 0, status |-> 0])
  /\ UNCHANGED <<variant, reservations, nextId, history, today, settings,
                 writing>>

\* the event loop runs the handler of one waiting request, start to end
Serve(c) ==
  /\ c \in Waiting
  /\ LET out == Handle(Db, clients[c].req)
     IN /\ Write(out.db)
        /\ clients' = [clients EXCEPT ![c] = [@ EXCEPT !.served = Events + 1,
                                                    !.status = out.status]]
  /\ UNCHANGED <<variant, today, writing>>

\* ------------------------------------- requests of every kind in flight
\* A GET request carries its query.
Get(op, q) == [op |-> op, q |-> q]

\* the requests and queries in flight: those of the first dates and blocks,
\* of one year, with the shortest lists, sent with the requester named
InTraffic(req) ==
  /\ Len(req.ipad_ids.items) <= TrafficBatch
  /\ req.fecha <= TrafficDay
  /\ req.bloque_horario <= TrafficBlock
  /\ req.docente # ""
QueryInTraffic(q) == q.fecha <= TrafficDay /\ q.bloque <= TrafficBlock

\* what clients send to the running variant
Traffic ==
  {Get("availability", q) : q \in {x \in AvailabilityQueries : QueryInTraffic(x)}}
  \cup {Get("stats", q) : q \in {x \in MonthQueries : x.year = 1970}}
  \cup {Get("export", q) : q \in {x \in MonthQueries : x.year = 1970}}
  \cup {req \in (IF variant = "batch"
                 THEN ReserveRequests \cup ReserveFaulted
                      \cup ReturnRequests \cup ReturnFaulted
                 ELSE Reserve1Requests \cup Reserve1Faulted) : InTraffic(req)}

\* the content of a response: the reserved devices of an availability
\* answer, the rows of an export, the figures of statistics or an export
NoFigures ==
  [total |-> 0, ipadMasUsado |-> NA, diaMasDemanda |-> NA,
   bloqueMasReservado |-> NA]
Answer(out, reserved, rows, figures) ==
  [db |-> out.db, status |-> out.status, reserved |-> reserved, rows |-> rows,
   figures |-> figures]

\* the route a request of any kind is for
Route(db, req, todayStr) ==
  IF req.op = "reserve"
  THEN Answer(ReserveOutcome(db, req), {}, {}, NoFigures)
  ELSE IF req.op = "reserve1"
  THEN Answer(Reserve1Outcome(db, req), {}, {}, NoFigures)
  ELSE IF req.op = "return"
  THEN Answer(ReturnOutcome(db, req, todayStr), {}, {}, NoFigures)
  ELSE IF req.op = "availability"
  THEN LET out == IF variant = "batch" THEN AvailabilityOutcome(db, req.q)
                  ELSE Availability1Outcome(db, req.q)
       IN Answer(out, out.reserved, {}, NoFigures)
  ELSE IF req.op = "stats"
  THEN LET out == StatsOutcome(db, req.q)
       IN Answer(out, {}, {}, out.body)
  ELSE LET out == IF variant = "batch" THEN ExportOutcome(db, req.q)
                  ELSE Export1Outcome(db, req.q)
       IN Answer(out, {}, out.rows,
                 [total |-> out.total, ipadMasUsado |-> out.top_ipad,
                  diaMasDemanda |-> NA, bloqueMasReservado |-> out.top_block])

\* the clients whose response is complete
Responded == {c \in Sent : clients[c].status # 0}

\* a request reaches the server and waits in the event loop
Receive(c) ==
  /\ c = Cardinality(Sent) + 1
  /\ \E req \in Traffic :
       clients' = Append(clients, [req |-> req, arrived |-> Events + 1,
                                   served |-> 0, status |-> 0,
                                   reserved |-> {}, rows |-> {},
                                   figures |-> NoFigures])
  /\ UNCHANGED <<variant, reservations, nextId, history, today, settings,
                 writing>>

\* The event loop runs the handler of one waiting request: to its response,
\* or, for an export, to its await (the workbook is filled by then, the
\* response is not yet ended).
Respond(c) ==
  /\ c \in Waiting
  /\ LET req == clients[c].req
         out == Route(Db, req, today)
     IN /\ Write(out.db)
        /\ clients' = [clients EXCEPT ![c] =
             [req |-> req, arrived |-> clients[c].arrived,
              served |-> Events + 1,
              status |-> IF req.op = "export" THEN 0 ELSE out.status,
              reserved |-> out.reserved, rows |-> out.rows,
              figures |-> out.figures]]
  /\ UNCHANGED <<variant, today, writing>>

\* await workbook.xlsx.write(res) is over: res.end()
Finish(c) ==
  /\ c \in Answered
  /\ clients[c].req.op = "export"
  /\ clients[c].status = 0
  /\ clients' = [clients EXCEPT ![c].status = StatusOk]
  /\ UNCHANGED <<variant, reservations, nextId, history, today, settings,
                 writing>>

\* ------------------------------------------------------------- the clock
\* new Date() moves on between requests, and while requests wait
Tick ==
  /\ today < MaxDay
  /\ today' = today + 1
  /\ UNCHANGED <<variant, reservations, nextId, history, settings, clients,
                 writing>>

\* ------------------------------------------------------- specification
Init ==
  /\ variant \in {"batch", "single"}
  /\ reservations = {}
  /\ nextId = 1
  /\ history = <<>>
  /\ today = 1
  /\ settings = [background_url |-> DefaultBackground]
  /\ clients = <<>>
  /\ writing = <<>>

\* Requests handled one after another; an export is handled up to its await
\* and ended in a later step, with other handlers run in between.
Next ==
  \/ Reserve \/ Return \/ Reserve1
  \/ Availability \/ Availability1 \/ Stats
  \/ Listing \/ Listing1 \/ Export \/ Export1 \/ ExportEnd
  \/ GetBackground \/ UpdateBackground
  \/ Tick

Spec == Init /\ [][Next]_vars

\* requests that wait while others are handled
NextInFlight == \E c \in Clients : Arrive(c) \/ Serve(c)

SpecInFlight == Init /\ [][NextInFlight]_vars

\* Requests of every kind that wait while others are handled, and the clock
\* that moves on while they wait (a handler reads the date when it runs);
\* the event loop leaves no handler that is ready to run waiting for ever.
\* The workbook of an export that waits at its await is kept with its
\* request in `clients`.
NextRequests ==
  \/ \E c \in Clients : Receive(c) \/ Respond(c) \/ Finish(c)
  \/ Tick

SpecRequests ==
  /\ Init
  /\ [][NextRequests]_vars
  /\ \A c \in Clients : WF_vars(Respond(c)) /\ WF_vars(Finish(c))

\* Reserve requests with dates over a whole week, handled one after another
NextWeek == ReserveWeek \/ Reserve1Week

SpecWeek == Init /\ [][NextWeek]_vars

\* ------------------------------------------------------------ properties
Range(s) == {s[i] : i \in 1..Len(s)}
NoDuplicates(s) == \A i, j \in 1..Len(s) : s[i] = s[j] => i = j
Held(rows, ipad, fecha) == {r \in rows : r.ipad_id = ipad /\ r.fecha = fecha}
AtSlot(rows, ipad, fecha, bloque) == {r \in rows : SameSlot(r, ipad, fecha, bloque)}
Unchanged(out) == out.db = Db
LastEvent == history[Len(history)]

\* C1  Uniqueness: in every reachable state of either variant the ledger
\* holds at most one active reservation for each slot (device, date, block).
Uniqueness ==
  \A d \in DevIds, f \in 1..MaxDay, b \in 1..MaxBlock :
    Cardinality(AtSlot(reservations, d, f, b)) <= 1

\* A slot that was reserved, returned and reserved again holds one row, and a
\* further Reserve of it is answered Conflict.
UniquenessWitness ==
  /\ Len(history) = 3
  /\ history[1].tipo = "RESERVA" /\ history[2].tipo = "DEVOLUCION"
  /\ history[3] = history[1]
  /\ \E req \in ReserveRequests :
       /\ ~ReserveInvalid(req)
       /\ history[3] = ReserveEvent(req.ipad_ids.items, req)
       /\ ReserveOutcome(Db, req).status = StatusConflict

\* C2  Atomic batch Reserve: a valid batch in which at least one device
\* already holds the slot is answered Conflict, and the ledger and the
\* history after it are those before it.
AtomicBatchReserve ==
  variant = "batch" =>
    \A req \in ReserveRequests :
      ( /\ req.ipad_ids.isArray /\ req.ipad_ids.items # <<>>
        /\ req.fecha # 0 /\ req.bloque_horario # 0 /\ req.docente # ""
        /\ \E d \in Range(req.ipad_ids.items) :
             AtSlot(reservations, d, req.fecha, req.bloque_horario) # {} )
      => LET out == ReserveOutcome(Db, req)
         IN out.status = StatusConflict /\ Unchanged(out)

\* A batch <<a, b>> whose first device is free and whose second is taken: the
\* insert for a has run when the insert for b throws.
AtomicBatchReserveWitness ==
  /\ variant = "batch"
  /\ \E req \in ReserveRequests :
       /\ ~ReserveInvalid(req)
       /\ Len(req.ipad_ids.items) = 2
       /\ AtSlot(reservations, req.ipad_ids.items[1], req.fecha, req.bloque_horario) = {}
       /\ AtSlot(reservations, req.ipad_ids.items[2], req.fecha, req.bloque_horario) # {}
       /\ ReserveOutcome(Db, req).status = StatusConflict
       /\ InsertAll(Db, req.ipad_ids.items, req).db.reservations # reservations

\* C3  A successful batch Reserve adds exactly one active reservation per
\* device of the batch, carrying the request's requester and course, and
\* appends exactly one RESERVA event listing all devices, requester, course,
\* date and block; nothing else changes.
ReserveSuccessEffect ==
  variant = "batch" =>
    \A req \in ReserveRequests :
      LET out == ReserveOutcome(Db, req)
          ids == req.ipad_ids.items
          added == out.db.reservations \ reservations
      IN out.status = StatusOk =>
           /\ reservations \subseteq out.db.reservations
           /\ \A d \in Range(ids) :
                /\ AtSlot(reservations, d, req.fecha, req.bloque_horario) = {}
                /\ Cardinality(AtSlot(added, d, req.fecha, req.bloque_horario)) = 1
           /\ \A r \in added :
                /\ r.ipad_id \in Range(ids)
                /\ r.fecha = req.fecha /\ r.bloque_horario = req.bloque_horario
                /\ r.docente = req.docente /\ r.curso = req.curso
           /\ Cardinality(added) = Len(ids)
           /\ Len(out.db.history) = Len(history) + 1
           /\ SubSeq(out.db.history, 1, Len(history)) = history
           /\ LET e == out.db.history[Len(history) + 1]
              IN /\ e.tipo = "RESERVA"
                 /\ e.ipads = ids
                 /\ e.docente = req.docente /\ e.curso = req.curso
                 /\ e.fecha = req.fecha /\ e.bloque_horario = <<req.bloque_horario>>

\* The last request was a successful Reserve of two devices: its event is
\* the newest one and both rows are in the ledger.
ReserveSuccessWitness ==
  /\ variant = "batch"
  /\ history # <<>>
  /\ LastEvent.tipo = "RESERVA"
  /\ Len(LastEvent.ipads) = 2
  /\ \A d \in Range(LastEvent.ipads) :
       AtSlot(reservations, d, LastEvent.fecha, LastEvent.bloque_horario[1]) # {}

\* C4  Idempotent conflict retry: when a Reserve succeeds, the same payload
\* submitted again is answered Conflict and leaves the ledger and the history
\* as the first submission left them (so every further resubmission starts
\* from that same state and gets that same answer).
IdempotentConflictRetry ==
  /\ variant = "batch" =>
       \A req \in ReserveRequests :
         LET first == ReserveOutcome(Db, req)
         IN first.status = StatusOk =>
              ReserveOutcome(first.db, req) = [db |-> first.db, status |-> StatusConflict]
  /\ variant = "single" =>
       \A req \in Reserve1Requests :
         LET first == Reserve1Outcome(Db, req)
         IN first.status = StatusOk =>
              Reserve1Outcome(first.db, req) = [db |-> first.db, status |-> StatusConflict]

\* The payload that was just reserved successfully is submitted again.
IdempotentConflictRetryWitness ==
  /\ variant = "batch"
  /\ history # <<>>
  /\ \E req \in ReserveRequests :
       /\ ~ReserveInvalid(req)
       /\ LastEvent = ReserveEvent(req.ipad_ids.items, req)
       /\ \A d \in Range(req.ipad_ids.items) :
            \E r \in AtSlot(reservations, d, req.fecha, req.bloque_horario) :
              r.id >= nextId - Len(req.ipad_ids.items)
       /\ ReserveOutcome(Db, req) = [db |-> Db, status |-> StatusConflict]

\* C5  Return releases the whole day: after a successful Return no active
\* reservation is left for any device of the request on that date, in any
\* block, so a later Reserve of those devices for any block of that date is
\* not answered Conflict.
ReturnReleasesWholeDay ==
  variant = "batch" =>
    \A req \in ReturnRequests :
      LET out == ReturnOutcome(Db, req, today)
          ids == req.ipad_ids.items
      IN out.status = StatusOk =>
           /\ \A d \in Range(ids) : Held(out.db.reservations, d, req.fecha) = {}
           /\ \A list \in IdLists :
                ( /\ list.isArray /\ list.items # <<>>
                  /\ Range(list.items) \subseteq Range(ids)
                  /\ NoDuplicates(list.items) )
                => \A b \in 1..MaxBlock, p \in Personas :
                     p.docente # "" =>
                       ReserveOutcome(out.db,
                                      Request("reserve", 0, list, req.fecha, b,
                                              p.docente, p.curso, "")).status = StatusOk

\* The last request returned a device that held two blocks of the day: both
\* are listed as released and the device holds nothing on that date.
ReturnReleasesWholeDayWitness ==
  /\ variant = "batch"
  /\ history # <<>>
  /\ LastEvent.tipo = "DEVOLUCION"
  /\ Len(LastEvent.ipads) = 1
  /\ Len(LastEvent.bloque_horario) = 2
  /\ Held(reservations, LastEvent.ipads[1], LastEvent.fecha) = {}

\* C6  No-op Return: a Return that passes validation (device list not
\* empty, date present and not in the past) is answered NotFound exactly
\* when no requested device holds a reservation on that date, and then the
\* ledger and the history are unchanged.
NoOpReturn ==
  variant = "batch" =>
    \A req \in ReturnRequests :
      ( /\ req.ipad_ids.isArray /\ req.ipad_ids.items # <<>>
        /\ req.fecha # 0 /\ req.fecha >= today )
      => LET out == ReturnOutcome(Db, req, today)
             none == \A d \in Range(req.ipad_ids.items) :
                       Held(reservations, d, req.fecha) = {}
         IN /\ (out.status = StatusNotFound) <=> none
            /\ none => Unchanged(out)

\* A Return for a device with nothing booked that day, while the ledger and
\* the history hold other entries.
NoOpReturnWitness ==
  /\ variant = "batch"
  /\ reservations # {}
  /\ history # <<>>
  /\ \E req \in ReturnRequests :
       /\ ~ReturnInvalid(req)
       /\ req.fecha >= today
       /\ \E r \in reservations : r.ipad_id \in Range(req.ipad_ids.items)
       /\ ReturnOutcome(Db, req, today) = [db |-> Db, status |-> StatusNotFound]

\* C7  A successful Return appends exactly one DEVOLUCION event: its
\* device list is the request's, its block list is the union, without
\* repetition, of the blocks the requested devices held that date, and its
\* requester, course and notes are the supplied values or "N/A", "N/A", "".
ReturnEventContent ==
  variant = "batch" =>
    \A req \in ReturnRequests :
      LET out == ReturnOutcome(Db, req, today)
          ids == req.ipad_ids.items
          heldBlocks == {r.bloque_horario :
                           r \in UNION {Held(reservations, d, req.fecha) : d \in Range(ids)}}
      IN out.status = StatusOk =>
           /\ Len(out.db.history) = Len(history) + 1
           /\ SubSeq(out.db.history, 1, Len(history)) = history
           /\ LET e == out.db.history[Len(history) + 1]
              IN /\ e.tipo = "DEVOLUCION"
                 /\ e.ipads = ids
                 /\ e.fecha = req.fecha
                 /\ Range(e.bloque_horario) = heldBlocks
                 /\ NoDuplicates(e.bloque_horario)
                 /\ e.docente = (IF req.docente = "" THEN "N/A" ELSE req.docente)
                 /\ e.curso = (IF req.curso = "" THEN "N/A" ELSE req.curso)
                 /\ e.novedades = req.novedades

\* Two devices were reserved for one block, one of them for a second block
\* too, and both were returned together: three rows, two block names.
ReturnEventContentWitness ==
  /\ variant = "batch"
  /\ Len(history) = 3
  /\ history[1].tipo = "RESERVA" /\ Len(history[1].ipads) = 2
  /\ history[2].tipo = "RESERVA" /\ Len(history[2].ipads) = 1
  /\ history[2].fecha = history[1].fecha
  /\ history[3].tipo = "DEVOLUCION" /\ history[3].fecha = history[1].fecha
  /\ Range(history[3].ipads) = Range(history[1].ipads)
  /\ Len(history[3].bloque_horario) = 2
  /\ history[3].docente = "N/A"
  /\ reservations = {}

\* C8  Past-date Return rejection: whatever the ledger holds, a Return with
\* a non-empty device list and a date before the current date is answered
\* ValidationError, removes no reservation and appends no event.
PastDateReturnRejected ==
  variant = "batch" =>
    \A req \in ReturnRequests :
      ( /\ req.ipad_ids.isArray /\ req.ipad_ids.items # <<>>
        /\ req.fecha # 0 /\ req.fecha < today )
      => LET out == ReturnOutcome(Db, req, today)
         IN out.status = StatusBadRequest /\ Unchanged(out)

\* The day has changed and a device still holds yesterday's reservation; a
\* Return for it is refused.
PastDateReturnRejectedWitness ==
  /\ variant = "batch"
  /\ today > 1
  /\ \E req \in ReturnRequests :
       /\ ~ReturnInvalid(req)
       /\ req.fecha < today
       /\ \E d \in Range(req.ipad_ids.items) : Held(reservations, d, req.fecha) # {}
       /\ ReturnOutcome(Db, req, today) = [db |-> Db, status |-> StatusBadRequest]

\* C9 (as claimed)  Weekend policy: every active reservation of the ledger,
\* in either variant, has a date from Monday to Friday.
WeekendPolicyEverywhere ==
  \A r \in reservations : UTCDay(r.fecha) \in 1..5

\* C9 (amended)  In the single-device variant a Reserve whose date falls on a
\* Saturday or Sunday is answered ValidationError and changes nothing, so no
\* active reservation of that variant has a Saturday or Sunday date; checked
\* with the dates of a whole week.
WeekendPolicySingle ==
  variant = "single" =>
    /\ \A req \in Reserve1WeekRequests :
         (req.fecha # 0 /\ UTCDay(req.fecha) \in {0, 6})
         => LET out == Reserve1Outcome(Db, req)
            IN out.status = StatusBadRequest /\ Unchanged(out)
    /\ \A r \in reservations : UTCDay(r.fecha) \in 1..5

\* The ledger holds a reservation of the Friday and one of the Monday, and
\* a complete request for a free slot is refused on the Saturday and on the
\* Sunday between them.
WeekendPolicySingleWitness ==
  /\ variant = "single"
  /\ \E r \in reservations : UTCDay(r.fecha) = 5
  /\ \E r \in reservations : UTCDay(r.fecha) = 1
  /\ \A day \in {0, 6} :
       \E req \in Reserve1WeekRequests :
         /\ ~Reserve1Invalid(req)
         /\ UTCDay(req.fecha) = day
         /\ AtSlot(reservations, req.ipad_id, req.fecha, req.bloque_horario) = {}
         /\ Reserve1Outcome(Db, req) = [db |-> Db, status |-> StatusBadRequest]

\* C10  Validation precedes every write: a Reserve without device ids, date,
\* block or requester, and a Return without device ids or date, is answered
\* ValidationError with the ledger and the history unchanged.
ValidationBeforeWrite ==
  /\ variant = "batch" =>
       /\ \A req \in ReserveRequests :
            ( \/ ~req.ipad_ids.isArray \/ req.ipad_ids.items = <<>>
              \/ req.fecha = 0 \/ req.bloque_horario = 0 \/ req.docente = "" )
            => LET out == ReserveOutcome(Db, req)
               IN out.status = StatusBadRequest /\ Unchanged(out)
       /\ \A req \in ReturnRequests :
            ( \/ ~req.ipad_ids.isArray \/ req.ipad_ids.items = <<>> \/ req.fecha = 0 )
            => LET out == ReturnOutcome(Db, req, today)
               IN out.status = StatusBadRequest /\ Unchanged(out)
  /\ variant = "single" =>
       \A req \in Reserve1Requests :
         ( \/ req.ipad_id = 0 \/ req.fecha = 0
           \/ req.bloque_horario = 0 \/ req.docente = "" )
         => LET out == Reserve1Outcome(Db, req)
            IN out.status = StatusBadRequest /\ Unchanged(out)

\* A Reserve for free slots that lacks only the requester is refused, with
\* reservations and events already in the store.
ValidationBeforeWriteWitness ==
  /\ variant = "batch"
  /\ reservations # {}
  /\ history # <<>>
  /\ \E req \in ReserveRequests :
       /\ req.ipad_ids.isArray /\ req.ipad_ids.items # <<>>
       /\ req.fecha # 0 /\ req.bloque_horario # 0
       /\ req.docente = ""
       /\ \A d \in Range(req.ipad_ids.items) :
            AtSlot(reservations, d, req.fecha, req.bloque_horario) = {}
       /\ ReserveOutcome(Db, req) = [db |-> Db, status |-> StatusBadRequest]

\* C11  The history is append-only: every step of every run (Reserve,
\* Return, availability, statistics, listing, export, settings update, the
\* clock) leaves the history as it was or adds one event at its end; the
\* events already there keep their place and their content.
HistoryAppendOnly ==
  [][ \/ history' = history
      \/ /\ Len(history') = Len(history) + 1
         /\ SubSeq(history', 1, Len(history)) = history ]_vars

\* Three events were written one after another, a Return among them, and the
\* background was changed in between.
HistoryAppendOnlyWitness ==
  /\ Len(history) = 3
  /\ history[1].tipo = "RESERVA"
  /\ history[2].tipo = "DEVOLUCION"
  /\ history[3].tipo = "RESERVA"
  /\ settings.background_url # DefaultBackground

\* ---------------------------------------------- requests in flight (C12)
\* the slots a Reserve request asks for
SlotsOf(req) ==
  IF req.op = "reserve"
  THEN {<<d, req.fecha, req.bloque_horario>> : d \in Range(req.ipad_ids.items)}
  ELSE {<<req.ipad_id, req.fecha, req.bloque_horario>>}

\* the request passes every check made before the insert
PassesChecks(req) ==
  IF req.op = "reserve" THEN ~ReserveInvalid(req)
  ELSE ~Reserve1Invalid(req) /\ UTCDay(req.fecha) \in 1..5

\* both requests had arrived before either was answered
InFlightTogether(c1, c2) ==
  /\ clients[c1].arrived < clients[c2].served
  /\ clients[c2].arrived < clients[c1].served

StoreAtStart ==
  [reservations |-> {}, nextId |-> 1, history |-> <<>>,
   settings |-> [background_url |-> DefaultBackground]]

\* the requests of the clients in `order`, handled one after another
RECURSIVE Serial(_, _)
Serial(db, order) ==
  IF order = <<>> THEN [db |-> db, status |-> <<>>]
  ELSE LET out == Handle(db, clients[Head(order)].req)
           rest == Serial(out.db, Tail(order))
       IN [db |-> rest.db, status |-> <<out.status>> \o rest.status]

Orders ==
  {o \in [1..Cardinality(Sent) -> Sent] : \A i, j \in DOMAIN o : o[i] = o[j] => i = j}

\* C12  Concurrent Reserve requests are serialized: of two Reserve requests
\* that pass validation, ask for a common slot and were in flight at the same
\* time, at most one is answered success and each one not answered success is
\* answered Conflict; and once every request is answered, the ledger, the
\* history and the answers are those of handling the requests one after
\* another in some order.
ConcurrentReserveSerialized ==
  /\ \A c1, c2 \in Answered :
       ( /\ c1 # c2
         /\ InFlightTogether(c1, c2)
         /\ PassesChecks(clients[c1].req) /\ PassesChecks(clients[c2].req)
         /\ SlotsOf(clients[c1].req) \cap SlotsOf(clients[c2].req) # {} )
       => /\ ~(clients[c1].status = StatusOk /\ clients[c2].status = StatusOk)
          /\ clients[c1].status \in {StatusOk, StatusConflict}
          /\ clients[c2].status \in {StatusOk, StatusConflict}
  /\ (Sent # {} /\ Waiting = {}) =>
       \E o \in Orders :
         LET run == Serial(StoreAtStart, o)
         IN /\ run.db = Db
            /\ \A i \in DOMAIN o : run.status[i] = clients[o[i]].status

\* Two batches with a device in common, for the same free date and block,
\* waited together; the one that arrived second was handled first and
\* succeeded, the other was answered Conflict.
ConcurrentReserveSerializedWitness ==
  /\ variant = "batch"
  /\ Answered = {1, 2}
  /\ InFlightTogether(1, 2)
  /\ clients[2].served < clients[1].served
  /\ Len(clients[1].req.ipad_ids.items) = 2
  /\ clients[1].req.ipad_ids.items # clients[2].req.ipad_ids.items
  /\ SlotsOf(clients[1].req) \cap SlotsOf(clients[2].req) # {}
  /\ clients[2].status = StatusOk
  /\ clients[1].status = StatusConflict
  /\ Len(history) = 1

\* ------------------------------------------------ whole transactions (C13)
\* the step from this state to the next is one whole batch Reserve: one
\* RESERVA event and one new row for each device it lists, nothing removed
WholeReserveStep ==
  /\ Len(history') = Len(history) + 1
  /\ SubSeq(history', 1, Len(history)) = history
  /\ LET e == history'[Len(history')]
         added == reservations' \ reservations
     IN /\ e.tipo = "RESERVA"
        /\ reservations \subseteq reservations'
        /\ Cardinality(added) = Len(e.ipads)
        /\ \A d \in Range(e.ipads) :
             Cardinality(AtSlot(added, d, e.fecha, e.bloque_horario[1])) = 1

\* the step is one whole Return: one DEVOLUCION event and every row of its
\* devices on its date removed, nothing else
WholeReturnStep ==
  /\ Len(history') = Len(history) + 1
  /\ SubSeq(history', 1, Len(history)) = history
  /\ LET e == history'[Len(history')]
     IN /\ e.tipo = "DEVOLUCION"
        /\ reservations' # reservations
        /\ reservations' =
             {r \in reservations : ~(r.ipad_id \in Range(e.ipads) /\ r.fecha = e.fecha)}

\* the step is one insert of the single-device variant
SingleInsertStep ==
  /\ variant = "single"
  /\ history' = history
  /\ reservations \subseteq reservations'
  /\ Cardinality(reservations' \ reservations) = 1

\* C13  No reader observes a partially applied transaction: the ledger an
\* availability query reads is that of a state between two steps, and every
\* step leaves ledger and history as they were or applies one whole Reserve
\* or one whole Return; a state with some inserts of a batch, some deletions
\* of a Return, or deletions without their event, never exists.
NoPartialTransaction ==
  [][ \/ reservations' = reservations /\ history' = history
      \/ WholeReserveStep
      \/ WholeReturnStep
      \/ SingleInsertStep ]_vars

\* A Return of two devices that both hold rows is cut short by a storage
\* failure at its second device: the rows of the first were deleted inside
\* the transaction, yet the store and the availability answer still show
\* them.
NoPartialTransactionWitness ==
  /\ variant = "batch"
  /\ \E req \in ReturnFaulted :
       /\ req.fault = 2
       /\ Len(req.ipad_ids.items) = 2
       /\ req.fecha >= today
       /\ \A d \in Range(req.ipad_ids.items) : Held(reservations, d, req.fecha) # {}
       /\ LET part == ReleaseAll(Db, req.ipad_ids.items, req, <<>>)
          IN /\ part.threw
             /\ Held(part.db.reservations, req.ipad_ids.items[1], req.fecha) = {}
       /\ ReturnOutcome(Db, req, today).db = Db
       /\ \E row \in AvailabilityOutcome(Db, Query(req.fecha, 0)).reserved :
            row.ipad_id = req.ipad_ids.items[1]

\* C14  Availability query: for a date and a block the answer is exactly the
\* set of devices that hold an active reservation for (date, block) in the
\* current ledger; in the batch variant, with the block left out, it is
\* exactly the set of (device, block) pairs of the active reservations of
\* the date; a query without a date is answered ValidationError.
AvailabilityExact ==
  /\ variant = "batch" =>
       \A q \in AvailabilityQueries :
         LET out == AvailabilityOutcome(Db, q)
         IN /\ q.fecha = 0 => out.status = StatusBadRequest
            /\ (q.fecha # 0 /\ q.bloque # 0) =>
                 /\ out.status = StatusOk
                 /\ {row.ipad_id : row \in out.reserved} =
                      {d \in DevIds : AtSlot(reservations, d, q.fecha, q.bloque) # {}}
            /\ (q.fecha # 0 /\ q.bloque = 0) =>
                 /\ out.status = StatusOk
                 /\ {<<row.ipad_id, row.bloque_horario>> : row \in out.reserved} =
                      {s \in DevIds \X (1..MaxBlock) :
                         AtSlot(reservations, s[1], q.fecha, s[2]) # {}}
  /\ variant = "single" =>
       \A q \in AvailabilityQueries :
         LET out == Availability1Outcome(Db, q)
         IN /\ q.fecha = 0 => out.status = StatusBadRequest
            /\ (q.fecha # 0 /\ q.bloque # 0) =>
                 /\ out.status = StatusOk
                 /\ out.reserved =
                      {d \in DevIds : AtSlot(reservations, d, q.fecha, q.bloque) # {}}

\* The ledger holds rows in two blocks of one date and a row of another
\* date: the answer for one block is part of, and not all of, the answer for
\* the date.
AvailabilityExactWitness ==
  /\ variant = "batch"
  /\ \E r \in reservations : \E x \in reservations : r.fecha # x.fecha
  /\ \E q \in AvailabilityQueries :
       /\ q.fecha # 0 /\ q.bloque # 0
       /\ AvailabilityOutcome(Db, q).reserved # {}
       /\ AvailabilityOutcome(Db, q).reserved #
            AvailabilityOutcome(Db, Query(q.fecha, 0)).reserved

\* C15  Statistics without data: for a month and year in which the ledger
\* holds no active reservation, the statistics query is answered OK with
\* total 0 and "N/A" as most used device, busiest date and most reserved
\* block.
StatsNoData ==
  \A q \in MonthQueries :
    (\A r \in reservations : ~(MonthOf(r.fecha) = q.month /\ YearOf(r.fecha) = q.year))
    => LET out == StatsOutcome(Db, q)
       IN /\ out.status = StatusOk
          /\ out.body.total = 0
          /\ out.body.ipadMasUsado = NA
          /\ out.body.diaMasDemanda = NA
          /\ out.body.bloqueMasReservado = NA

\* The ledger holds reservations of January 1970 and the statistics of
\* February 1970 are asked for.
StatsNoDataWitness ==
  /\ Cardinality(reservations) >= 2
  /\ StatsOutcome(Db, MonthQuery(1, 1970)).body.total = Cardinality(reservations)
  /\ StatsOutcome(Db, MonthQuery(2, 1970)).body =
       [total |-> 0, ipadMasUsado |-> NA, diaMasDemanda |-> NA,
        bloqueMasReservado |-> NA]

\* ------------------------------------------------- statistics maxima (C16)
\* the number of rows with key k, and whether no key has more
CountOf(rows, col, k) == Cardinality({r \in rows : r[col] = k})
Maximal(rows, col, k) ==
  /\ \E r \in rows : r[col] = k
  /\ \A r \in rows : CountOf(rows, col, r[col]) <= CountOf(rows, col, k)

\* the same reservations as they would be had they been inserted in the
\* opposite order
Renumbered(rows) == {[r EXCEPT !.id = nextId - r.id] : r \in rows}

\* what C16 asks of the answer for the rows of one month
MaximaReported(rows, body) ==
  /\ ~body.ipadMasUsado.na
  /\ Maximal(rows, "ipad_id", body.ipadMasUsado.value)
  /\ \A r \in rows : Maximal(rows, "ipad_id", r.ipad_id)
                       => body.ipadMasUsado.value <= r.ipad_id
  /\ ~body.diaMasDemanda.na
  /\ Maximal(rows, "fecha", body.diaMasDemanda.value)
  /\ ~body.bloqueMasReservado.na
  /\ Maximal(rows, "bloque_horario", body.bloqueMasReservado.value)

\* C16 (as claimed)  Statistics maxima are deterministic: for a month with
\* reservations the reported device, date and block each have the maximal
\* number of active reservations of the month, the device is the lowest id
\* among the devices that tie, and a ledger holding the same reservations in
\* another insertion order reports the same values.
StatsMaximaDeterministic ==
  \A q \in MonthQueries :
    LET rows == {r \in reservations : InMonth(r.fecha, q)}
        body == StatsOutcome(Db, q).body
    IN rows # {} =>
         /\ MaximaReported(rows, body)
         /\ StatsOutcome([Db EXCEPT !.reservations = Renumbered(reservations)], q).body
              = body

\* C16 (what the code does keep)  The same statement for the months whose
\* reservations all name devices of the pool 1..60.
StatsMaximaPoolDevices ==
  \A q \in MonthQueries :
    LET rows == {r \in reservations : InMonth(r.fecha, q)}
        body == StatsOutcome(Db, q).body
    IN (rows # {} /\ \A r \in rows : r.ipad_id \in Ipads) =>
         /\ MaximaReported(rows, body)
         /\ StatsOutcome([Db EXCEPT !.reservations = Renumbered(reservations)], q).body
              = body

\* Device 0 holds most reservations of January 1970 and the statistics
\* answer names no device.
StatsDeviceZeroWitness ==
  /\ variant = "batch"
  /\ CountOf(reservations, "ipad_id", 0) = 2
  /\ CountOf(reservations, "ipad_id", 1) = 1
  /\ StatsOutcome(Db, MonthQuery(1, 1970)).body.total = 3
  /\ StatsOutcome(Db, MonthQuery(1, 1970)).body.ipadMasUsado = NA

\* Two dates and two blocks tie for the maximum, all devices from the pool.
StatsMaximaPoolDevicesWitness ==
  /\ \A r \in reservations : r.ipad_id \in Ipads
  /\ \E r \in reservations : \E x \in reservations :
       /\ r.fecha # x.fecha /\ r.bloque_horario # x.bloque_horario
       /\ CountOf(reservations, "fecha", r.fecha) = CountOf(reservations, "fecha", x.fecha)
       /\ CountOf(reservations, "bloque_horario", r.bloque_horario)
            = CountOf(reservations, "bloque_horario", x.bloque_horario)

\* ------------------------------------------------ storage failures (C17, C18)
\* the failing statement of a Return is reached: the request passes the
\* checks and the failure is at one of its devices, or at the history insert
\* when some device holds a reservation that date
ReturnFaultReached(req) ==
  /\ req.ipad_ids.isArray /\ req.ipad_ids.items # <<>>
  /\ req.fecha # 0 /\ req.fecha >= today
  /\ \/ req.fault \in 1..Len(req.ipad_ids.items)
     \/ /\ req.fault = Len(req.ipad_ids.items) + 1
        /\ \E d \in Range(req.ipad_ids.items) : Held(reservations, d, req.fecha) # {}

\* C17  Return is atomic with its history append: whatever the request and
\* wherever the storage fails, a Return either removes every active
\* reservation of the requested devices on the date and appends exactly one
\* DEVOLUCION event (and is answered success), or removes nothing and appends
\* nothing; a storage failure after some deletions or at the history insert
\* leaves ledger and history as before and is answered as a failure.
ReturnAtomic ==
  variant = "batch" =>
    \A req \in ReturnRequests \cup ReturnFaulted :
      LET out == ReturnOutcome(Db, req, today)
          mine == {r \in reservations :
                     r.ipad_id \in Range(req.ipad_ids.items) /\ r.fecha = req.fecha}
      IN /\ \/ /\ out.status = StatusOk
               /\ mine # {}
               /\ out.db.reservations = reservations \ mine
               /\ Len(out.db.history) = Len(history) + 1
               /\ SubSeq(out.db.history, 1, Len(history)) = history
               /\ out.db.history[Len(history) + 1].tipo = "DEVOLUCION"
            \/ /\ out.status # StatusOk
               /\ out.db.reservations = reservations
               /\ out.db.history = history
         /\ ReturnFaultReached(req) =>
              out.status = StatusServerError /\ Unchanged(out)

\* A Return of one device that holds a reservation fails at its history
\* insert: the deletion was made inside the transaction, the store is as
\* before, and the same Return without the failure would succeed.
ReturnAtomicWitness ==
  /\ variant = "batch"
  /\ history # <<>>
  /\ \E req \in ReturnFaulted :
       /\ Len(req.ipad_ids.items) = 1
       /\ req.fault = 2
       /\ req.fecha >= today
       /\ Held(reservations, req.ipad_ids.items[1], req.fecha) # {}
       /\ ReturnBody(Db, req.ipad_ids.items, req).threw
       /\ ReturnBody(Db, req.ipad_ids.items, req).db.reservations # reservations
       /\ ReturnOutcome(Db, req, today) = [db |-> Db, status |-> StatusServerError]
       /\ ReturnOutcome(Db, Faulted(req, 0), today).status = StatusOk

\* the failing statement of a Reserve is reached: the request passes the
\* checks and no insert before the failing statement meets a taken slot
ReserveFaultReached(req) ==
  /\ req.ipad_ids.isArray /\ req.ipad_ids.items # <<>>
  /\ req.fecha # 0 /\ req.bloque_horario # 0 /\ req.docente # ""
  /\ req.fault \in 1..(Len(req.ipad_ids.items) + 1)
  /\ \A i \in 1..Len(req.ipad_ids.items) :
       i < req.fault =>
         /\ AtSlot(reservations, req.ipad_ids.items[i], req.fecha, req.bloque_horario) = {}
         /\ \A j \in 1..(i - 1) : req.ipad_ids.items[j] # req.ipad_ids.items[i]

Reserve1FaultReached(req) ==
  /\ req.ipad_id # 0 /\ req.fecha # 0 /\ req.bloque_horario # 0 /\ req.docente # ""
  /\ UTCDay(req.fecha) \in 1..5
  /\ req.fault = 1

\* C18  No failure is reported as success: a Reserve or a Return is answered
\* success only if all of its writes are in the store afterwards, and a
\* storage error that is not a uniqueness violation is answered
\* StorageFailure (not Conflict, not success) on its first occurrence, with
\* ledger and history unchanged.
NoFailureAsSuccess ==
  /\ variant = "batch" =>
       /\ \A req \in ReserveRequests \cup ReserveFaulted :
            LET out == ReserveOutcome(Db, req)
            IN /\ out.status = StatusOk =>
                    /\ \A d \in Range(req.ipad_ids.items) :
                         AtSlot(out.db.reservations, d, req.fecha, req.bloque_horario) # {}
                    /\ Len(out.db.history) = Len(history) + 1
                    /\ ~ReserveFaultReached(req)
               /\ ReserveFaultReached(req) =>
                    out.status = StatusServerError /\ Unchanged(out)
       /\ \A req \in ReturnRequests \cup ReturnFaulted :
            LET out == ReturnOutcome(Db, req, today)
            IN /\ out.status = StatusOk =>
                    /\ \A d \in Range(req.ipad_ids.items) :
                         Held(out.db.reservations, d, req.fecha) = {}
                    /\ Len(out.db.history) = Len(history) + 1
                    /\ ~ReturnFaultReached(req)
               /\ ReturnFaultReached(req) =>
                    out.status = StatusServerError /\ Unchanged(out)
  /\ variant = "single" =>
       \A req \in Reserve1Requests \cup Reserve1Faulted :
         LET out == Reserve1Outcome(Db, req)
         IN /\ out.status = StatusOk =>
                 /\ AtSlot(out.db.reservations, req.ipad_id, req.fecha,
                           req.bloque_horario) # {}
                 /\ ~Reserve1FaultReached(req)
            /\ Reserve1FaultReached(req) =>
                 out.status = StatusServerError /\ Unchanged(out)

\* A Reserve of two free devices fails at its second insert, with other
\* reservations in the store: the first insert had run, the answer is
\* StorageFailure, the store is as before, and the same Reserve without the
\* failure would succeed.
NoFailureAsSuccessWitness ==
  /\ variant = "batch"
  /\ reservations # {}
  /\ \E req \in ReserveFaulted :
       /\ Len(req.ipad_ids.items) = 2
       /\ req.fault = 2
       /\ InsertAll(Db, req.ipad_ids.items, req).threw
       /\ InsertAll(Db, req.ipad_ids.items, req).db.reservations # reservations
       /\ ReserveOutcome(Db, req) = [db |-> Db, status |-> StatusServerError]
       /\ ReserveOutcome(Db, Faulted(req, 0)).status = StatusOk

\* C19  Read-only operations have no effect on the store: the availability
\* query, the statistics query, the history / reservation listing, the
\* monthly export and the reading of the background leave the ledger, the
\* history and the settings exactly as they were, whatever the query.
\* (The ipads table is written at start-up only; it is the constant Ipads.)
ReadOnlyNoEffect ==
  /\ \A q \in MonthQueries : Unchanged(StatsOutcome(Db, q))
  /\ Unchanged(GetBackgroundOutcome(Db))
  /\ variant = "batch" =>
       /\ \A q \in AvailabilityQueries : Unchanged(AvailabilityOutcome(Db, q))
       /\ \A q \in ListingQueries : Unchanged(ListingOutcome(Db, q))
       /\ \A q \in MonthQueries : Unchanged(ExportOutcome(Db, q))
  /\ variant = "single" =>
       /\ \A q \in AvailabilityQueries : Unchanged(Availability1Outcome(Db, q))
       /\ \A q \in ListingQueries : Unchanged(Listing1Outcome(Db, q))
       /\ \A q \in MonthQueries : Unchanged(Export1Outcome(Db, q))

\* The store holds reservations, events of both kinds and a changed
\* background, and the export of the month lists the events.
ReadOnlyNoEffectWitness ==
  /\ variant = "batch"
  /\ reservations # {}
  /\ Len(history) >= 2
  /\ \E i \in 1..Len(history) : history[i].tipo = "DEVOLUCION"
  /\ settings.background_url # DefaultBackground
  /\ Cardinality(ExportOutcome(Db, MonthQuery(1, 1970)).rows) = Len(history)
  /\ ExportOutcome(Db, MonthQuery(1, 1970)).total = Cardinality(reservations)

\* the store with another background
WithUrl(db, url) == [db EXCEPT !.settings.background_url = url]

\* C20  Settings are independent of reservations: updating the background
\* changes the settings entry and nothing else; no Reserve or Return,
\* whatever its answer, changes the setting; and the answer and the writes
\* of a Reserve or Return are the same whatever the setting's value.
SettingsIndependent ==
  /\ \A url \in Urls :
       LET out == UpdateBackgroundOutcome(Db, url)
       IN /\ out.db.settings.background_url = url
          /\ out.db.reservations = reservations
          /\ out.db.history = history
          /\ out.db.nextId = nextId
  /\ variant = "batch" =>
       /\ \A req \in ReserveRequests \cup ReserveFaulted :
            LET out == ReserveOutcome(Db, req)
            IN /\ out.db.settings = settings
               /\ \A url \in Urls :
                    ReserveOutcome(WithUrl(Db, url), req) =
                      [db |-> WithUrl(out.db, url), status |-> out.status]
       /\ \A req \in ReturnRequests \cup ReturnFaulted :
            LET out == ReturnOutcome(Db, req, today)
            IN /\ out.db.settings = settings
               /\ \A url \in Urls :
                    ReturnOutcome(WithUrl(Db, url), req, today) =
                      [db |-> WithUrl(out.db, url), status |-> out.status]
  /\ variant = "single" =>
       \A req \in Reserve1Requests \cup Reserve1Faulted :
         LET out == Reserve1Outcome(Db, req)
         IN /\ out.db.settings = settings
            /\ \A url \in Urls :
                 Reserve1Outcome(WithUrl(Db, url), req) =
                   [db |-> WithUrl(out.db, url), status |-> out.status]

\* The background was changed, then a Reserve and a Return succeeded and the
\* changed background is still there; a further Reserve can succeed.
SettingsIndependentWitness ==
  /\ variant = "batch"
  /\ settings.background_url = "fondo.png"
  /\ Len(history) = 2
  /\ history[2].tipo = "DEVOLUCION"
  /\ \E req \in ReserveRequests : ReserveOutcome(Db, req).status = StatusOk

\* ------------------------------------------------ every request completes (C21)
Responses ==
  {StatusOk, StatusBadRequest, StatusNotFound, StatusConflict, StatusServerError}

\* the kinds of request C21 speaks of
Claimed(c) ==
  clients[c].req.op \in {"reserve", "reserve1", "return", "availability", "stats"}

\* C21  Every request completes: each Reserve, Return, availability and
\* statistics request that has reached the server, whatever other requests
\* are in flight and in whatever order they are handled, eventually has a
\* response; the response is one of success, ValidationError, NotFound,
\* Conflict and StorageFailure; a request that has its response never gets
\* another; and the handler of a waiting request can always run, whatever
\* the other requests are doing.
EveryRequestCompletes ==
  /\ \A c \in Clients :
       (c \in Sent /\ Claimed(c)) ~> (c \in Responded)
  /\ [](\A c \in Responded : clients[c].status \in Responses)
  /\ [][\A c \in Responded : clients'[c] = clients[c]]_vars
  /\ [](\A c \in Waiting : ENABLED Respond(c))

\* Two requests waited together and both have their response: one of them
\* a Return answered NotFound, handled after the request that arrived later.
EveryRequestCompletesWitness ==
  /\ Responded = {1, 2}
  /\ InFlightTogether(1, 2)
  /\ clients[2].served < clients[1].served
  /\ clients[1].req.op = "return"
  /\ clients[1].status = StatusNotFound

\* ------------------------------------------ removal only by Return (C22)
\* the same request sent by another teacher for another course
Somebody == Persona("ana", "6B", "")
By(req, p) == [req EXCEPT !.docente = p.docente, !.curso = p.curso]

\* the rows of `before` that are not, unchanged, in `after`
Gone(before, after) == before \ after

\* C22  Active reservations are removed only by a successful Return for the
\* same device and date: in every reachable state, no Reserve (answered
\* success, Conflict, ValidationError or StorageFailure, from the same or
\* another requester) leaves an existing row out or changed; a Return that
\* is not answered success leaves the ledger as it was; a Return answered
\* success takes away only rows of a requested device on the requested
\* date and changes no row; and no read or settings operation touches the
\* ledger.
RemovedOnlyByReturn ==
  /\ variant = "batch" =>
       /\ \A req \in ReserveRequests \cup ReserveFaulted, p \in {Somebody} :
            /\ Gone(reservations, ReserveOutcome(Db, req).db.reservations) = {}
            /\ Gone(reservations, ReserveOutcome(Db, By(req, p)).db.reservations) = {}
       /\ \A req \in ReturnRequests \cup ReturnFaulted :
            LET out == ReturnOutcome(Db, req, today)
            IN /\ out.db.reservations \subseteq reservations
               /\ out.status # StatusOk => out.db.reservations = reservations
               /\ \A r \in Gone(reservations, out.db.reservations) :
                    /\ out.status = StatusOk
                    /\ InSeq(r.ipad_id, req.ipad_ids.items)
                    /\ r.fecha = req.fecha
       /\ \A q \in AvailabilityQueries :
            AvailabilityOutcome(Db, q).db.reservations = reservations
       /\ \A q \in ListingQueries :
            ListingOutcome(Db, q).db.reservations = reservations
       /\ \A q \in MonthQueries :
            ExportOutcome(Db, q).db.reservations = reservations
  /\ variant = "single" =>
       /\ \A req \in Reserve1Requests \cup Reserve1Faulted, p \in {Somebody} :
            /\ Gone(reservations, Reserve1Outcome(Db, req).db.reservations) = {}
            /\ Gone(reservations, Reserve1Outcome(Db, By(req, p)).db.reservations) = {}
       /\ \A q \in AvailabilityQueries :
            Availability1Outcome(Db, q).db.reservations = reservations
       /\ \A q \in ListingQueries :
            Listing1Outcome(Db, q).db.reservations = reservations
       /\ \A q \in MonthQueries :
            Export1Outcome(Db, q).db.reservations = reservations
  /\ \A q \in MonthQueries : StatsOutcome(Db, q).db.reservations = reservations
  /\ GetBackgroundOutcome(Db).db.reservations = reservations
  /\ \A url \in Urls : UpdateBackgroundOutcome(Db, url).db.reservations = reservations

\* A slot is held for luz's course; the same Reserve sent by another teacher
\* is answered Conflict, and a Return for a device that holds nothing that
\* day is answered NotFound.
RemovedOnlyByReturnWitness ==
  /\ variant = "batch"
  /\ \E req \in ReserveRequests :
       /\ ~ReserveInvalid(req)
       /\ \E r \in AtSlot(reservations, req.ipad_ids.items[1], req.fecha,
                            req.bloque_horario) : r.docente = "luz" /\ r.curso = "5A"
       /\ ReserveOutcome(Db, By(req, Somebody)).status = StatusConflict
  /\ \E req \in ReturnRequests :
       /\ reservations # {}
       /\ ReturnOutcome(Db, req, today).status = StatusNotFound

\* ------------------------------------- Conflict only on a prior booking (C23)
\* some device of the batch already holds the slot the request asks for
HeldBefore(req) ==
  \E d \in Range(req.ipad_ids.items) :
    AtSlot(reservations, d, req.fecha, req.bloque_horario) # {}

\* C23 (as claimed)  A batch Reserve is answered Conflict only if, just
\* before the request, some device of the batch already held an active
\* reservation for the date and block; a batch that names a device twice,
\* for a slot free for every listed device, is not answered Conflict.
ConflictOnlyOnPriorBooking ==
  variant = "batch" =>
    \A req \in ReserveRequests :
      ReserveOutcome(Db, req).status = StatusConflict => HeldBefore(req)

\* The same statement for the batches that name no device twice, and for
\* the single-device variant.
ConflictOnlyOnPriorBookingNoDuplicates ==
  /\ variant = "batch" =>
       \A req \in ReserveRequests :
         ( /\ NoDuplicates(req.ipad_ids.items)
           /\ ReserveOutcome(Db, req).status = StatusConflict ) => HeldBefore(req)
  /\ variant = "single" =>
       \A req \in Reserve1Requests :
         Reserve1Outcome(Db, req).status = StatusConflict =>
           AtSlot(reservations, req.ipad_id, req.fecha, req.bloque_horario) # {}

\* A batch that names device 1 twice, for a slot nobody holds, is answered
\* Conflict: the second insert collides with the first.
SelfCollisionWitness ==
  /\ variant = "batch"
  /\ reservations = {}
  /\ \E req \in ReserveRequests :
       /\ req.ipad_ids.items = <<1, 1>>
       /\ ~HeldBefore(req)
       /\ ReserveOutcome(Db, req).status = StatusConflict
       /\ ReserveOutcome(Db, req).db = Db

\* ------------------------------------------------- what Return leaves (C24)
\* C24  A successful Return removes exactly the active reservations whose
\* device is listed in the request and whose date is the request's date:
\* the ledger after it is the ledger before it without those rows, so every
\* row of another device, or of a listed device on another date, is still
\* there unchanged, also when some listed device held nothing that day.
ReturnFrame ==
  variant = "batch" =>
    \A req \in ReturnRequests \cup ReturnFaulted :
      LET out == ReturnOutcome(Db, req, today)
      IN out.status = StatusOk =>
           out.db.reservations =
             {r \in reservations :
                ~(InSeq(r.ipad_id, req.ipad_ids.items) /\ r.fecha = req.fecha)}

\* Device 1 holds a block on two dates and device 0 holds nothing on the
\* second: a Return of <<0, 1>> for the second date succeeds and the row of
\* the first date stays.
ReturnFrameWitness ==
  /\ variant = "batch"
  /\ \E req \in ReturnRequests :
       /\ req.ipad_ids.items = <<0, 1>>
       /\ Held(reservations, 0, req.fecha) = {}
       /\ Held(reservations, 1, req.fecha) # {}
       /\ \E r \in reservations : r.ipad_id = 1 /\ r.fecha # req.fecha
       /\ LET out == ReturnOutcome(Db, req, today)
          IN /\ out.status = StatusOk
             /\ out.db.reservations # {}
             /\ out.db.reservations # reservations

\* --------------------------------------------- the past stays as it is (C25)
\* the statistics total of the month of a date, over the given rows
TotalOfMonthOf(rows, fecha) ==
  StatsOutcome([Db EXCEPT !.reservations = rows],
               MonthQuery(MonthOf(fecha), YearOf(fecha))).body.total

\* C25  Past reservations are immutable: with the current date only moving
\* forward, a step of any kind (a request of any route, or the clock) that
\* starts with an active reservation dated before the current date ends
\* with that same reservation in the ledger, still dated before the current
\* date and still counted by the statistics of its month.
PastImmutable ==
  [][\A r \in reservations :
       r.fecha < today =>
         /\ r \in reservations'
         /\ r.fecha < today'
         /\ TotalOfMonthOf(reservations', r.fecha) >= 1]_vars

\* The date has moved past a reservation, and a Return for its device and
\* date, which would have released it the day before, is refused.
PastImmutableWitness ==
  /\ variant = "batch"
  /\ \E r \in reservations, req \in ReturnRequests :
       /\ r.fecha < today
       /\ InSeq(r.ipad_id, req.ipad_ids.items)
       /\ req.fecha = r.fecha
       /\ ReturnOutcome(Db, req, today).status = StatusBadRequest
       /\ ReturnOutcome(Db, req, r.fecha).status = StatusOk

\* ------------------------------------- statistics follow the ledger (C26)
\* the active reservations of a month
OfMonth(rows, q) == {r \in rows : InMonth(r.fecha, q)}

\* C26  Statistics are computed over the active reservations, not over the
\* history: in every reachable state the total reported for a month and
\* year (by the statistics route and by the export) is the number of active
\* reservations dated in that month; a successful Return lowers the total
\* of a month by the number of reservations of that month it released, and
\* the events already in the history, the RESERVA events of the released
\* reservations among them, stay as they are.
StatsOverLedger ==
  /\ \A q \in MonthQueries :
       /\ StatsOutcome(Db, q).body.total = Cardinality(OfMonth(reservations, q))
       /\ variant = "batch" =>
            ExportOutcome(Db, q).total = Cardinality(OfMonth(reservations, q))
       /\ variant = "single" =>
            Export1Outcome(Db, q).total = Cardinality(OfMonth(reservations, q))
  /\ variant = "batch" =>
       \A req \in ReturnRequests \cup ReturnFaulted, q \in MonthQueries :
         LET out == ReturnOutcome(Db, req, today)
             released == reservations \ out.db.reservations
         IN out.status = StatusOk =>
              /\ StatsOutcome(out.db, q).body.total =
                   StatsOutcome(Db, q).body.total - Cardinality(OfMonth(released, q))
              /\ SubSeq(out.db.history, 1, Len(history)) = history

\* Two reservations are active and the history lists more devices than
\* that; a Return that releases one of them lowers the total to one.
StatsOverLedgerWitness ==
  /\ variant = "batch"
  /\ StatsOutcome(Db, MonthQuery(1, 1970)).body.total = 2
  /\ ReservedInHistory(history, MonthQuery(1, 1970)) > 2
  /\ \E req \in ReturnRequests :
       LET out == ReturnOutcome(Db, req, today)
       IN /\ out.status = StatusOk
          /\ StatsOutcome(out.db, MonthQuery(1, 1970)).body.total = 1
          /\ ReservedInHistory(out.db.history, MonthQuery(1, 1970)) > 2

\* ------------------------------------------------ one snapshot (C27)
\* the four figures that describe the given rows
FiguresOf(rows) ==
  [total |-> Cardinality(rows),
   ipadMasUsado |-> OrNA(TopGroup(rows, "ipad_id")),
   diaMasDemanda |-> OrNA(TopGroup(rows, "fecha")),
   bloqueMasReservado |-> OrNA(TopGroup(rows, "bloque_horario"))]

\* the step in which the handler of the waiting client c runs its queries
Queried(c) == c \in Waiting /\ clients'[c].served # 0

\* C27  Statistics and export are snapshot-consistent: with requests of
\* every kind in flight, the step in which a statistics or export handler
\* runs its queries changes neither ledger nor history, and the content it
\* produces, the four figures of a statistics response or the rows and the
\* three figures of an export, is all computed from the ledger and history
\* of that one state; the content does not change afterwards, whatever is
\* committed before the response ends.
SnapshotConsistent ==
  [][/\ \A c \in Waiting :
          (Queried(c) /\ clients[c].req.op \in {"stats", "export"}) =>
            LET q == clients[c].req.q
                rows == OfMonth(reservations, q)
            IN /\ reservations' = reservations /\ history' = history
               /\ clients[c].req.op = "stats" =>
                    clients'[c].figures = FiguresOf(rows)
               /\ clients[c].req.op = "export" =>
                    /\ clients'[c].figures =
                         [FiguresOf(rows) EXCEPT !.diaMasDemanda = NA]
                    /\ clients'[c].rows =
                         IF variant = "batch"
                         THEN {i \in 1..Len(history) : InMonth(history[i].fecha, q)}
                         ELSE rows
     /\ \A c \in Answered :
          /\ clients'[c].figures = clients[c].figures
          /\ clients'[c].rows = clients[c].rows]_vars

\* An export ran its queries on the empty store and was still writing its
\* workbook when a Reserve was handled and committed; the export ended
\* with the empty snapshot.
SnapshotConsistentWitness ==
  /\ Responded = {1, 2}
  /\ clients[1].req.op = "export"
  /\ clients[1].req.q = MonthQuery(1, 1970)
  /\ clients[2].req.op = "reserve"
  /\ clients[2].status = StatusOk
  /\ clients[1].served < clients[2].served
  /\ clients[1].status = StatusOk
  /\ clients[1].figures.total = 0 /\ clients[1].rows = {}
  /\ reservations # {} /\ history # <<>>

\* ------------------------------------------ ledger and history agree (C28)
\* the event is a Return of the device for the date
ReturnsIt(e, ipad, fecha) ==
  e.tipo = "DEVOLUCION" /\ e.fecha = fecha /\ InSeq(ipad, e.ipads)

\* the i-th event is a Reserve of the row's slot, with no Return of the
\* row's device and date after it
Covers(i, r) ==
  /\ history[i].tipo = "RESERVA"
  /\ history[i].fecha = r.fecha
  /\ history[i].bloque_horario = <<r.bloque_horario>>
  /\ InSeq(r.ipad_id, history[i].ipads)
  /\ \A j \in (i + 1)..Len(history) : ~ReturnsIt(history[j], r.ipad_id, r.fecha)

\* C28  Ledger and history agree (batch variant, from an empty store): in
\* every reachable state every active reservation is covered by a RESERVA
\* event of its date and block whose device list holds its device, with no
\* DEVOLUCION event for that device and date after that RESERVA event.
LedgerHistoryAgree ==
  variant = "batch" =>
    \A r \in reservations : \E i \in 1..Len(history) : Covers(i, r)

\* A slot was reserved, returned and reserved again: its row is covered by
\* the third event and not by the first, which has the Return after it.
LedgerHistoryAgreeWitness ==
  /\ variant = "batch"
  /\ Len(history) = 3
  /\ \E r \in reservations :
       /\ Covers(3, r)
       /\ ~Covers(1, r)
       /\ history[1].tipo = "RESERVA"
       /\ ReturnsIt(history[2], r.ipad_id, r.fecha)

\* ------------------------------- history counts what succeeded (C29)
\* the Reserve and Return requests answered with the given status
AnsweredWith(status) ==
  {c \in Responded : /\ clients[c].req.op \in {"reserve", "return"}
                     /\ clients[c].status = status}

\* the number of events a request answered `status` has added
EventsFor(status) == IF status = StatusOk THEN 1 ELSE 0

\* C29  History counts completed transactions only (batch variant): in
\* every reachable state the number of history events equals the number of
\* Reserve requests answered success plus the number of Return requests
\* answered success; and a Reserve or Return handled in that state adds one
\* event if it is answered success and none if it is answered
\* ValidationError, Conflict, NotFound or StorageFailure.
HistoryCountsSuccesses ==
  variant = "batch" =>
    /\ Len(history) = Cardinality(AnsweredWith(StatusOk))
    /\ \A req \in ReserveRequests \cup ReserveFaulted :
         LET out == ReserveOutcome(Db, req)
         IN Len(out.db.history) = Len(history) + EventsFor(out.status)
    /\ \A req \in ReturnRequests \cup ReturnFaulted :
         LET out == ReturnOutcome(Db, req, today)
         IN Len(out.db.history) = Len(history) + EventsFor(out.status)

\* Of two requests one Reserve succeeded, and a Return whose history insert
\* failed, after its delete had run, was answered StorageFailure: one event.
HistoryCountsSuccessesWitness ==
  /\ variant = "batch"
  /\ Responded = {1, 2}
  /\ clients[1].req.op = "reserve" /\ clients[1].status = StatusOk
  /\ clients[2].req.op = "return" /\ clients[2].status = StatusServerError
  /\ clients[2].req.fault = Len(clients[2].req.ipad_ids.items) + 1
  /\ clients[1].served < clients[2].served
  /\ Len(history) = 1
  /\ reservations # {}

\* -------------------------------------- reservations and the pool (C30)
\* C30 (as claimed)  Reservations refer only to pool devices: the pool is
\* the ids 1..60, and in every reachable state the device id of every
\* active reservation is a member of the pool (a Reserve that names a
\* device outside the pool creates no active reservation).
ReservationsInPool ==
  /\ Ipads = 1..60
  /\ \A r \in reservations : r.ipad_id \in Ipads
  /\ variant = "batch" =>
       \A req \in ReserveRequests :
         (\E d \in Range(req.ipad_ids.items) : d \notin Ipads) =>
           ReserveOutcome(Db, req).db.reservations = reservations

\* The ledger of the batch variant holds an active reservation for device
\* 0, which is not in the pool.
OutOfPoolWitness ==
  /\ variant = "batch"
  /\ \E r \in reservations : r.ipad_id \notin Ipads
  /\ \E e \in Range(history) : e.tipo = "RESERVA" /\ InSeq(0, e.ipads)

\* ------------------------------ the single-device ledger only grows (C31)
\* what a Reserve that passes validation, for a weekday, does to the ledger
\* of the single-device variant, and what availability then reports
SingleReserveEffect ==
  /\ \A req \in Reserve1Requests :
       (~Reserve1Invalid(req) /\ UTCDay(req.fecha) \in 1..5) =>
         LET out == Reserve1Outcome(Db, req)
             added == out.db.reservations \ reservations
         IN IF AtSlot(reservations, req.ipad_id, req.fecha, req.bloque_horario) = {}
            THEN /\ out.status = StatusOk
                 /\ reservations \subseteq out.db.reservations
                 /\ Cardinality(added) = 1
                 /\ \A r \in added :
                      /\ SameSlot(r, req.ipad_id, req.fecha, req.bloque_horario)
                      /\ r.docente = req.docente /\ r.curso = req.curso
                 /\ out.db.history = history /\ out.db.settings = settings
            ELSE out.status = StatusConflict /\ Unchanged(out)
  /\ \A req \in Reserve1Requests \cup Reserve1Faulted :
       reservations \subseteq Reserve1Outcome(Db, req).db.reservations
  /\ \A r \in reservations :
       LET out == Availability1Outcome(Db, Query(r.fecha, r.bloque_horario))
       IN out.status = StatusOk /\ r.ipad_id \in out.reserved

\* C31  In the single-device variant a Reserve that passes validation for a
\* free weekday slot adds exactly that one active reservation, and one for
\* an occupied slot is answered Conflict with the ledger unchanged; every
\* step keeps every active reservation, so the ledger only grows; and in
\* every state the availability query for the date and block of any active
\* reservation lists its device, so a slot once reserved is reported as
\* reserved ever after.
SingleLedgerGrows ==
  /\ [](variant = "single" => SingleReserveEffect)
  /\ [][variant = "single" => reservations \subseteq reservations']_vars

\* The ledger of the single-device variant holds a reservation; a Reserve
\* for its slot is answered Conflict, a Reserve for a free slot of the same
\* weekday succeeds, and availability lists the reserved device.
SingleLedgerGrowsWitness ==
  /\ variant = "single"
  /\ Cardinality(reservations) = 1
  /\ \E req \in Reserve1Requests :
       /\ AtSlot(reservations, req.ipad_id, req.fecha, req.bloque_horario) # {}
       /\ Reserve1Outcome(Db, req).status = StatusConflict
  /\ \E req \in Reserve1Requests :
       /\ AtSlot(reservations, req.ipad_id, req.fecha, req.bloque_horario) = {}
       /\ Reserve1Outcome(Db, req).status = StatusOk
  /\ \A r \in reservations :
       r.ipad_id \in Availability1Outcome(Db, Query(r.fecha, r.bloque_horario)).reserved

====
